--------------------------------- MODULE Tcp ---------------------------------
(***************************************************************************)
(* The TCP of tcp.c and the server of gopher_server.c that uses it: one    *)
(* listener, one connection, no retransmission, and every process that     *)
(* polls the network runs the same handler on the same static variables.   *)
(*                                                                         *)
(* The clients are outside: each connects once, sends its request in       *)
(* segments of any size, may close, and reads the reply.  The network      *)
(* loses, doubles and delays: whatever a client has sent may arrive at any *)
(* time, any number of times, in any order, or never.                      *)
(*                                                                         *)
(* Sequence numbers count from the initial one of their sender; the code   *)
(* only adds to them and compares them for equality.                       *)
(***************************************************************************)
EXTENDS Integers, Sequences

CONSTANTS
    Servers,        \* processes that run gopher_server_main
    Clients,
    Port,           \* Port[c], the source port of a client
    Nobody,
    Commands,       \* what the user does to servers: contains "kill" or not
    REQUEST_LEN,    \* bytes of a request
    REPLY_LEN,      \* bytes of a reply
    MAX_SEGMENT,    \* bytes of reply in a segment (1400)
    RECV_BUF_SIZE,  \* bytes of recv_buf (4096)
    RECV_MAX        \* bytes that handle_request asks for (255)

ASSUME TcpConstants ==
    /\ Nobody \notin Clients \cup Servers
    /\ DOMAIN Port = Clients
    /\ {REQUEST_LEN, REPLY_LEN, MAX_SEGMENT, RECV_BUF_SIZE, RECV_MAX} \subseteq Nat \ {0}

(* What the proofs, and most runs, assume of the world.                    *)
OneServer == \A s, r \in Servers : s = r
DistinctPorts == \A c, d \in Clients : Port[c] = Port[d] => c = d

VARIABLES
    state,          \* the state of the one connection
    active_conn,    \* the server whose conn it is
    conn,           \* conn[s], the tcp_conn_t on the stack of server s
    recv_buf,       \* bytes not yet taken by tcp_recv
    got_fin,
    phase,          \* phase[s], the call of tcp.c that server s is in
    taken,          \* taken[s], what tcp_recv has returned for this connection
    out,            \* every segment sent to a client
    client,         \* client[c], how far the client has got
    sent,           \* sent[c], bytes of its request it has sent
    heard           \* the clients that have received the server's FIN

kernelVars == <<state, active_conn, conn, recv_buf, got_fin>>
serverVars == <<phase, taken>>
clientVars == <<client, sent, heard>>
vars == <<kernelVars, serverVars, out, clientVars>>

States == {"CLOSED", "LISTEN", "SYN_RCVD", "ESTABLISHED", "CLOSING"}
NewConn == [peer |-> Nobody, peer_seq |-> 0, my_seq |-> 0, connected |-> FALSE]
Bytes == [from : Clients, at : Nat]
Smaller(i, j) == IF i < j THEN i ELSE j

TypeOK ==
    /\ state \in States
    /\ active_conn \in Servers \cup {Nobody}
    /\ conn \in [Servers -> [peer : Clients \cup {Nobody}, peer_seq : Nat,
                             my_seq : Nat, connected : BOOLEAN]]
    /\ recv_buf \in Seq(Bytes)
    /\ Len(recv_buf) <= RECV_BUF_SIZE
    /\ got_fin \in BOOLEAN
    /\ phase \in [Servers -> {"none", "accept", "recv", "close"}]
    /\ taken \in [Servers -> Seq(Bytes)]
    /\ out \subseteq [to : Clients \cup {Nobody}, flag : {"SYN", "ACK", "DATA", "FIN"},
                      seq : Nat, len : Nat]
    /\ client \in [Clients -> {"idle", "syn_sent", "established", "closed"}]
    /\ sent \in [Clients -> 0 .. REQUEST_LEN]
    /\ heard \subseteq Clients

Init ==
    /\ state = "CLOSED"
    /\ active_conn = Nobody
    /\ conn = [s \in Servers |-> NewConn]
    /\ recv_buf = <<>>
    /\ got_fin = FALSE
    /\ phase = [s \in Servers |-> "none"]
    /\ taken = [s \in Servers |-> <<>>]
    /\ out = {}
    /\ client = [c \in Clients |-> "idle"]
    /\ sent = [c \in Clients |-> 0]
    /\ heard = {}

-----------------------------------------------------------------------------
(* Clients and the network.                                                *)

Syn(c)        == [from |-> c, flag |-> "SYN",  seq |-> 0, len |-> 0]
Ack(c)        == [from |-> c, flag |-> "ACK",  seq |-> 1, len |-> 0]
Data(c, i, n) == [from |-> c, flag |-> "DATA", seq |-> 1 + i, len |-> n]
Fin(c, i)     == [from |-> c, flag |-> "FIN",  seq |-> 1 + i, len |-> sent[c] - i]

Connected(c) == client[c] \in {"established", "closed"}

(* What may arrive from a client.  All but the SYN carry the flag ACK, and *)
(* a FIN may come with the last of the data.                               *)
Wire(c) ==
    {m \in {Syn(c)} : client[c] # "idle"}
    \cup {m \in {Ack(c)} : Connected(c)}
    \cup {Data(c, r[1], r[2]) :
             r \in {r \in (0 .. sent[c]) \X (1 .. sent[c]) : r[1] + r[2] <= sent[c]}}
    \cup {Fin(c, i) : i \in {i \in 0 .. sent[c] : client[c] = "closed"}}

Connect(c) ==
    /\ client[c] = "idle"
    /\ client' = [client EXCEPT ![c] = "syn_sent"]
    /\ UNCHANGED <<kernelVars, serverVars, out, sent, heard>>

HearSynAck(c) ==
    /\ client[c] = "syn_sent"
    /\ \E m \in out : m.to = c /\ m.flag = "SYN"
    /\ client' = [client EXCEPT ![c] = "established"]
    /\ UNCHANGED <<kernelVars, serverVars, out, sent, heard>>

SendByte(c) ==
    /\ client[c] = "established"
    /\ sent[c] < REQUEST_LEN
    /\ sent' = [sent EXCEPT ![c] = @ + 1]
    /\ UNCHANGED <<kernelVars, serverVars, out, client, heard>>

Close(c) ==
    /\ client[c] = "established"
    /\ client' = [client EXCEPT ![c] = "closed"]
    /\ UNCHANGED <<kernelVars, serverVars, out, sent, heard>>

HearFin(c) ==
    /\ Connected(c)
    /\ \E m \in out : m.to = c /\ m.flag = "FIN"
    /\ heard' = heard \cup {c}
    /\ UNCHANGED <<kernelVars, serverVars, out, client, sent>>

-----------------------------------------------------------------------------
(* tcp_handle_segment, run by net_poll in whatever process polls: a server *)
(* in one of its loops, or the shell in ping.                              *)

(* send_tcp_segment without data on the connection k: SYN and FIN count.   *)
Segment(k, flag) == [to |-> k.peer, flag |-> flag, seq |-> k.my_seq, len |-> 0]

HandleSyn(m) ==
    /\ state = "LISTEN"
    /\ m.flag = "SYN"
    /\ LET k == [conn[active_conn] EXCEPT !.peer = m.from, !.peer_seq = m.seq + 1, !.my_seq = 0]
       IN  /\ out' = out \cup {Segment(k, "SYN")}
           /\ conn' = [conn EXCEPT ![active_conn] = [k EXCEPT !.my_seq = 1]]
    /\ state' = "SYN_RCVD"
    /\ UNCHANGED <<active_conn, recv_buf, got_fin>>

(* The segment belongs to the connection: the ports agree.                 *)
ForConnection_Any(m) ==         \* mutant: the ports are not compared
    /\ active_conn # Nobody
    /\ conn[active_conn].peer # Nobody
ForConnection(m) ==
    /\ active_conn # Nobody
    /\ conn[active_conn].peer # Nobody
    /\ Port[conn[active_conn].peer] = Port[m.from]

HandleHandshakeAck(m) ==
    /\ state = "SYN_RCVD"
    /\ ForConnection(m)
    /\ m.flag # "SYN"
    /\ state' = "ESTABLISHED"
    /\ conn' = [conn EXCEPT ![active_conn].connected = TRUE]
    /\ UNCHANGED <<active_conn, recv_buf, got_fin, out>>

(* A FIN is believed whatever its sequence number; its data are dropped.   *)
HandleFin(m) ==
    /\ state = "ESTABLISHED"
    /\ ForConnection(m)
    /\ m.flag = "FIN"
    /\ got_fin' = TRUE
    /\ conn' = [conn EXCEPT ![active_conn].peer_seq = m.seq + 1]
    /\ out' = out \cup {Segment(conn[active_conn], "ACK")}
    /\ UNCHANGED <<state, active_conn, recv_buf>>

Payload(m) == [i \in 1 .. m.len |-> [from |-> m.from, at |-> m.seq + i - 2]]

InOrder_Any(m) == TRUE          \* mutant: the sequence number is not compared
InOrder(m) == m.seq = conn[active_conn].peer_seq

Copied_All(m) == m.len          \* mutant: not limited to the room in recv_buf
Copied(m) == Smaller(m.len, RECV_BUF_SIZE - Len(recv_buf))

(* Data that is next in order; what does not fit is acknowledged too.      *)
HandleData(m) ==
    /\ state = "ESTABLISHED"
    /\ ForConnection(m)
    /\ m.flag = "DATA"
    /\ InOrder(m)
    /\ recv_buf' = recv_buf \o SubSeq(Payload(m), 1, Copied(m))
    /\ conn' = [conn EXCEPT ![active_conn].peer_seq = @ + m.len]
    /\ out' = out \cup {Segment(conn[active_conn], "ACK")}
    /\ UNCHANGED <<state, active_conn, got_fin>>

(* While closing, a FIN is answered and any ACK ends the connection.       *)
HandleClosing(m) ==
    /\ state = "CLOSING"
    /\ ForConnection(m)
    /\ m.flag # "SYN"
    /\ IF m.flag = "FIN"
       THEN /\ conn' = [conn EXCEPT ![active_conn].peer_seq = m.seq + 1]
            /\ out' = out \cup {Segment(conn[active_conn], "ACK")}
       ELSE UNCHANGED <<conn, out>>
    /\ state' = "CLOSED"
    /\ UNCHANGED <<active_conn, recv_buf, got_fin>>

NetPoll(m) ==
    /\ \/ HandleSyn(m) \/ HandleHandshakeAck(m)
       \/ HandleFin(m) \/ HandleData(m) \/ HandleClosing(m)
    /\ UNCHANGED <<serverVars, clientVars>>

-----------------------------------------------------------------------------
(* gopher_server_main.  The loops of tcp.c run a bounded number of times:  *)
(* each of them may end at any iteration that has found nothing.           *)

(* tcp_accept up to its loop.                                              *)
Listen(s) ==
    /\ conn' = [conn EXCEPT ![s] = NewConn]
    /\ active_conn' = s
    /\ state' = "LISTEN"
    /\ recv_buf' = <<>>
    /\ got_fin' = FALSE
    /\ phase' = [phase EXCEPT ![s] = "accept"]
    /\ taken' = [taken EXCEPT ![s] = <<>>]
    /\ UNCHANGED <<out, clientVars>>

(* The command gopherserve, and kill of a server.                          *)
Start(s) == phase[s] = "none" /\ Listen(s)

Kill(s) ==
    /\ "kill" \in Commands
    /\ phase[s] # "none"
    /\ phase' = [phase EXCEPT ![s] = "none"]
    /\ UNCHANGED <<kernelVars, taken, out, clientVars>>

AcceptReturns_HalfOpen(s) ==    \* mutant: returns before the handshake is complete
    /\ phase[s] = "accept"
    /\ state # "LISTEN"
    /\ phase' = [phase EXCEPT ![s] = "recv"]
    /\ UNCHANGED <<kernelVars, taken, out, clientVars>>
AcceptReturns(s) ==
    /\ phase[s] = "accept"
    /\ state = "ESTABLISHED"
    /\ phase' = [phase EXCEPT ![s] = "recv"]
    /\ UNCHANGED <<kernelVars, taken, out, clientVars>>

AcceptTimesOut_Untested(s) ==   \* mutant: gives up without looking once more
    phase[s] = "accept" /\ Listen(s)
AcceptTimesOut(s) ==
    /\ phase[s] = "accept"
    /\ state # "ESTABLISHED"
    /\ Listen(s)

(* tcp_send cuts the reply into segments.                                  *)
Reply(k) ==
    {[to |-> k.peer, flag |-> "DATA", seq |-> k.my_seq + o,
      len |-> Smaller(MAX_SEGMENT, REPLY_LEN - o)] :
         o \in {o \in 0 .. REPLY_LEN - 1 : o % MAX_SEGMENT = 0}}

AfterReply_NotCounted(k) == k   \* mutant: tcp_send does not advance my_seq
AfterReply(k) == [k EXCEPT !.my_seq = @ + REPLY_LEN]

(* handle_request and the beginning of tcp_close, once tcp_recv returns:   *)
(* the whole reply and the FIN leave without a poll in between.            *)
AnswerAndClose(s) ==
    LET k == AfterReply(conn[s])
    IN  /\ out' = out \cup Reply(conn[s]) \cup {Segment(k, "FIN")}
        /\ conn' = [conn EXCEPT ![s] = [k EXCEPT !.my_seq = @ + 1]]
        /\ state' = "CLOSING"
        /\ phase' = [phase EXCEPT ![s] = "close"]
        /\ UNCHANGED <<active_conn, got_fin, clientVars>>

RecvReturns(s) ==
    /\ phase[s] = "recv"
    /\ recv_buf # <<>>
    /\ LET n == Smaller(Len(recv_buf), RECV_MAX)
       IN  /\ taken' = [taken EXCEPT ![s] = @ \o SubSeq(recv_buf, 1, n)]
           /\ recv_buf' = SubSeq(recv_buf, n + 1, Len(recv_buf))
    /\ AnswerAndClose(s)

(* got_fin, or the last iteration.                                         *)
RecvReturnsNothing(s) ==
    /\ phase[s] = "recv"
    /\ recv_buf = <<>>
    /\ UNCHANGED <<recv_buf, taken>>
    /\ AnswerAndClose(s)

(* state is CLOSED, or the last iteration; the next tcp_accept follows.    *)
CloseReturns_Waits(s) ==        \* mutant: the loop of tcp_close has no bound
    phase[s] = "close" /\ state = "CLOSED" /\ Listen(s)
CloseReturns(s) == phase[s] = "close" /\ Listen(s)

Server(s) ==
    \/ AcceptReturns(s) \/ AcceptTimesOut(s)
    \/ RecvReturns(s) \/ RecvReturnsNothing(s)
    \/ CloseReturns(s)

-----------------------------------------------------------------------------
Next ==
    \/ \E c \in Clients : Connect(c) \/ HearSynAck(c) \/ SendByte(c) \/ Close(c) \/ HearFin(c)
    \/ \E c \in Clients : \E m \in Wire(c) : NetPoll(m)
    \/ \E s \in Servers : Start(s) \/ Kill(s) \/ Server(s)

Spec == Init /\ [][Next]_vars

(* The loops of a server are bounded and the scheduler lets it run.        *)
FairSpec == Spec /\ \A s \in Servers : WF_vars(Server(s))

-----------------------------------------------------------------------------
(* Properties.                                                             *)

(* The byte stream: until a FIN comes, what a server has taken and what    *)
(* waits in recv_buf is the beginning of what its peer sent, without       *)
(* holes, repetitions or bytes of others, whatever the network does.       *)
Received(s) == taken[s] \o recv_buf
ReceivedIsPrefix ==
    \A s \in Servers : active_conn = s /\ ~got_fin =>
       \A i \in 1 .. Len(Received(s)) :
          Received(s)[i] = [from |-> conn[s].peer, at |-> i - 1]

(* The calls of gopher_server.c and the state of tcp.c agree: nobody reads *)
(* from a connection that is not open and its own.                         *)
PhaseMatchesState ==
    \A s \in Servers : phase[s] # "none" =>
       /\ active_conn = s
       /\ phase[s] = "accept" => state \in {"LISTEN", "SYN_RCVD", "ESTABLISHED"}
       /\ phase[s] = "recv"   => state = "ESTABLISHED" /\ conn[s].connected
       /\ phase[s] = "close"  => state \in {"CLOSING", "CLOSED"}

(* tcp_accept returns true only for a client that has completed the        *)
(* handshake: a connection is established on both sides.                   *)
EstablishedByBoth ==
    state = "ESTABLISHED" => /\ conn[active_conn].peer \in Clients
                             /\ Connected(conn[active_conn].peer)

(* What a client gets is numbered as one stream: SYN, reply and FIN take   *)
(* up the sequence numbers in that order, however often it is served.      *)
ReplyIsOneStream ==
    \A m \in out :
       /\ m.flag = "SYN"  => m.seq = 0
       /\ m.flag = "DATA" => m.seq >= 1 /\ m.seq + m.len <= 1 + REPLY_LEN
       /\ m.flag = "FIN"  => /\ m.seq = 1 + REPLY_LEN
                             /\ \A i \in 1 .. REPLY_LEN : \E d \in out :
                                   /\ d.to = m.to /\ d.flag = "DATA"
                                   /\ d.seq <= i /\ i < d.seq + d.len

(* A half-open connection, a silent client or a lost segment never keeps   *)
(* the server from listening again, unless it is killed.                   *)
Running(s) == phase[s] # "none"
ListensAgain == \A s \in Servers : Running(s) ~> (state = "LISTEN" \/ ~Running(s))

(* Data that arrived is read and answered, even when it arrives while      *)
(* tcp_accept is about to give up, unless the server is killed.            *)
DataIsAnswered ==
    \A s \in Servers :
       (active_conn = s /\ Running(s) /\ state = "ESTABLISHED" /\ recv_buf # <<>>)
          ~> (~Running(s) \/ (phase[s] = "close" /\ taken[s] # <<>>))

-----------------------------------------------------------------------------
(* What the texts of the repository say and the code does not do.          *)

(* "cierre con FIN/ACK" (README.md of the kernel): a connection that is    *)
(* CLOSED, not given up, has had its FIN acknowledged.                     *)
ClosedByBoth ==
    \A s \in Servers :
       phase[s] = "close" /\ state = "CLOSED" => conn[s].peer \in heard
==============================================================================
