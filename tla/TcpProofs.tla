------------------------------ MODULE TcpProofs ------------------------------
(***************************************************************************)
(* Proofs about Tcp, for any clients, any sizes of buffer, request, reply  *)
(* and segments, and any behaviour of the network.                         *)
(***************************************************************************)
EXTENDS Tcp, SequenceTheorems, TLAPS

USE TcpConstants

(***************************************************************************)
(* Types.                                                                  *)
(***************************************************************************)
(* Only a closed connection may have no owner.                             *)
HasConn ==
    /\ state # "CLOSED" => active_conn \in Servers
    /\ \A s \in Servers : phase[s] # "none" => active_conn \in Servers

TypeInv == TypeOK /\ HasConn

Segments(c) == [from : {c}, flag : {"SYN", "ACK", "DATA", "FIN"}, seq : Nat, len : Nat]

(* What may arrive from a client is well formed.                           *)
LEMMA WireTyped ==
    ASSUME TypeOK, NEW c \in Clients, NEW m \in Wire(c)
    PROVE  m \in Segments(c) /\ (m.flag = "DATA" => m.seq > 0)
<1>1. sent[c] \in Nat  BY DEF TypeOK
<1>2. CASE m = Syn(c)  BY <1>2 DEF Syn, Segments
<1>3. CASE m = Ack(c)  BY <1>3 DEF Ack, Segments
<1>4. ASSUME NEW i \in Nat, NEW n \in Nat, m = Data(c, i, n)
      PROVE  m \in Segments(c) /\ m.seq > 0
  BY <1>4 DEF Data, Segments
<1>5. ASSUME NEW i \in 0 .. sent[c], m = Fin(c, i)
      PROVE  m \in Segments(c) /\ m.flag # "DATA"
  BY <1>1, <1>5 DEF Fin, Segments
<1>6. \A i \in 0 .. sent[c], n \in 1 .. sent[c] : i \in Nat /\ n \in Nat  BY <1>1
<1>7. QED  BY <1>2, <1>3, <1>4, <1>5, <1>6 DEF Wire

LEMMA PayloadTyped ==
    ASSUME NEW c \in Clients, NEW m \in Segments(c), m.seq > 0
    PROVE  Payload(m) \in Seq(Bytes) /\ Len(Payload(m)) = m.len
<1>1. \A i \in 1 .. m.len : [from |-> m.from, at |-> m.seq + i - 2] \in Bytes
  BY DEF Bytes, Segments
<1>2. m.len \in Nat  BY DEF Segments
<1>3. QED  BY <1>1, <1>2 DEF Payload

(* What is copied fits.                                                    *)
LEMMA CopiedFits ==
    ASSUME TypeOK, NEW c \in Clients, NEW m \in Segments(c), m.seq > 0
    PROVE  /\ Copied(m) \in 0 .. m.len
           /\ Len(recv_buf) + Copied(m) <= RECV_BUF_SIZE
           /\ SubSeq(Payload(m), 1, Copied(m)) \in Seq(Bytes)
           /\ Len(SubSeq(Payload(m), 1, Copied(m))) = Copied(m)
<1>1. m.len \in Nat /\ Len(recv_buf) \in Nat /\ Len(recv_buf) <= RECV_BUF_SIZE
  BY DEF TypeOK, Segments
<1>2. Copied(m) \in 0 .. m.len /\ Len(recv_buf) + Copied(m) <= RECV_BUF_SIZE
  BY <1>1 DEF Copied, Smaller
<1>3. Payload(m) \in Seq(Bytes) /\ Len(Payload(m)) = m.len  BY PayloadTyped
<1>4. QED  BY <1>2, <1>3

Conns == [peer : Clients \cup {Nobody}, peer_seq : Nat, my_seq : Nat, connected : BOOLEAN]
Outs == [to : Clients \cup {Nobody}, flag : {"SYN", "ACK", "DATA", "FIN"}, seq : Nat, len : Nat]

LEMMA SegmentTyped ==
    ASSUME NEW k \in Conns, NEW flag \in {"SYN", "ACK", "DATA", "FIN"}
    PROVE  Segment(k, flag) \in Outs
BY DEF Segment, Conns, Outs

LEMMA ReplyTyped == ASSUME NEW k \in Conns  PROVE Reply(k) \subseteq Outs
<1>1. ASSUME NEW o \in 0 .. REPLY_LEN - 1
      PROVE  k.my_seq + o \in Nat /\ Smaller(MAX_SEGMENT, REPLY_LEN - o) \in Nat
  BY DEF Conns, Smaller
<1>2. QED  BY <1>1 DEF Reply, Conns, Outs

(* The fields of a connection that change are set to such values.          *)
LEMMA ConnEdited ==
    ASSUME NEW k \in Conns, NEW n \in Nat
    PROVE  /\ [k EXCEPT !.my_seq = n] \in Conns
           /\ [k EXCEPT !.peer_seq = n] \in Conns
           /\ [k EXCEPT !.connected = TRUE] \in Conns
BY DEF Conns

LEMMA InitTyped == Init => TypeInv
<1> SUFFICES ASSUME Init PROVE TypeInv  OBVIOUS
<1>1. NewConn \in Conns  BY DEF NewConn, Conns
<1>2. conn \in [Servers -> Conns]  BY <1>1 DEF Init
<1>3. recv_buf \in Seq(Bytes) /\ Len(recv_buf) <= RECV_BUF_SIZE  BY DEF Init
<1>4. taken \in [Servers -> Seq(Bytes)]  BY DEF Init
<1>5. sent \in [Clients -> 0 .. REQUEST_LEN]  BY DEF Init
<1>6. /\ phase \in [Servers -> {"none", "accept", "recv", "close"}]
      /\ client \in [Clients -> {"idle", "syn_sent", "established", "closed"}]
  BY DEF Init
<1>7. /\ state \in States /\ active_conn \in Servers \cup {Nobody} /\ got_fin \in BOOLEAN
      /\ out = {} /\ heard = {}
  BY DEF Init, States
<1>8. TypeOK  BY <1>2, <1>3, <1>4, <1>5, <1>6, <1>7 DEF TypeOK, Conns
<1>9. HasConn  BY DEF Init, HasConn
<1>10. QED  BY <1>8, <1>9 DEF TypeInv

LEMMA ClientTyped ==
    ASSUME TypeInv, NEW c \in Clients,
           Connect(c) \/ HearSynAck(c) \/ SendByte(c) \/ Close(c) \/ HearFin(c)
    PROVE  TypeInv'
<1>1. UNCHANGED <<state, active_conn, conn, recv_buf, got_fin, phase, taken, out>>
  BY DEF Connect, HearSynAck, SendByte, Close, HearFin, kernelVars, serverVars
<1>2. client' \in [Clients -> {"idle", "syn_sent", "established", "closed"}]
  BY DEF Connect, HearSynAck, SendByte, Close, HearFin, TypeInv, TypeOK
<1>3. sent' \in [Clients -> 0 .. REQUEST_LEN]
  <2>1. CASE SendByte(c)
    <3>1. sent \in [Clients -> 0 .. REQUEST_LEN]  BY DEF TypeInv, TypeOK
    <3>2. sent[c] + 1 \in 0 .. REQUEST_LEN  BY <2>1, <3>1 DEF SendByte
    <3>3. QED  BY <2>1, <3>1, <3>2 DEF SendByte
  <2>2. CASE sent' = sent  BY <2>2 DEF TypeInv, TypeOK
  <2>3. QED  BY <2>1, <2>2 DEF Connect, HearSynAck, Close, HearFin
<1>4. heard' \subseteq Clients
  BY DEF Connect, HearSynAck, SendByte, Close, HearFin, TypeInv, TypeOK
<1>5. QED  BY <1>1, <1>2, <1>3, <1>4 DEF TypeInv, TypeOK, HasConn

LEMMA NetPollTyped ==
    ASSUME TypeInv, NEW c \in Clients, NEW m \in Wire(c), NetPoll(m)
    PROVE  TypeInv'
<1> USE DEF TypeInv
<1>1. UNCHANGED <<active_conn, phase, taken, client, sent, heard>>
  BY DEF NetPoll, HandleSyn, HandleHandshakeAck, HandleFin, HandleData, HandleClosing,
         serverVars, clientVars
<1>2. m \in Segments(c) /\ (m.flag = "DATA" => m.seq > 0)  BY WireTyped
<1>3. state # "CLOSED" /\ active_conn \in Servers
  BY DEF NetPoll, HandleSyn, HandleHandshakeAck, HandleFin, HandleData, HandleClosing, HasConn
<1>4. conn \in [Servers -> Conns] /\ out \subseteq Outs /\ conn[active_conn] \in Conns
  BY <1>3 DEF TypeOK, Conns, Outs
<1>5. state' \in States
  BY DEF NetPoll, HandleSyn, HandleHandshakeAck, HandleFin, HandleData, HandleClosing,
         States, TypeOK
<1>6. recv_buf' \in Seq(Bytes) /\ Len(recv_buf') <= RECV_BUF_SIZE /\ got_fin' \in BOOLEAN
  <2>1. CASE HandleData(m)
    <3>1. m.seq > 0  BY <1>2, <2>1 DEF HandleData
    <3>2. /\ SubSeq(Payload(m), 1, Copied(m)) \in Seq(Bytes)
          /\ Len(SubSeq(Payload(m), 1, Copied(m))) = Copied(m)
          /\ Len(recv_buf) + Copied(m) <= RECV_BUF_SIZE
      BY <1>2, <3>1, CopiedFits
    <3>3. QED  BY <2>1, <3>2 DEF HandleData, TypeOK
  <2>2. CASE ~HandleData(m)
    BY <2>2 DEF NetPoll, HandleSyn, HandleHandshakeAck, HandleFin, HandleClosing, TypeOK
  <2>3. QED  BY <2>1, <2>2
<1>7. conn' \in [Servers -> Conns] /\ out' \subseteq Outs
  <2>1. CASE HandleSyn(m)
    <3> DEFINE k == [conn[active_conn] EXCEPT !.peer = m.from, !.peer_seq = m.seq + 1, !.my_seq = 0]
    <3>0. k \in Conns
      <4>1. m.from \in Clients /\ m.seq + 1 \in Nat  BY <1>2 DEF Segments
      <4>2. [conn[active_conn] EXCEPT !.peer = m.from] \in Conns  BY <1>4, <4>1 DEF Conns
      <4>3. [conn[active_conn] EXCEPT !.peer = m.from, !.peer_seq = m.seq + 1] \in Conns
        BY <4>1, <4>2, ConnEdited
      <4>4. QED  BY <4>3, ConnEdited
    <3>2. /\ out' = out \cup {Segment(k, "SYN")}
          /\ conn' = [conn EXCEPT ![active_conn] = [k EXCEPT !.my_seq = 1]]
      BY <2>1 DEF HandleSyn
    <3> HIDE DEF k
    <3>1. [k EXCEPT !.my_seq = 1] \in Conns  BY <3>0, ConnEdited
    <3>3. Segment(k, "SYN") \in Outs  BY <3>0, SegmentTyped
    <3>4. QED  BY <1>3, <1>4, <3>1, <3>2, <3>3
  <2>2. CASE HandleHandshakeAck(m)
    <3>1. [conn[active_conn] EXCEPT !.connected = TRUE] \in Conns  BY <1>4, ConnEdited
    <3>2. QED  BY <1>3, <1>4, <2>2, <3>1 DEF HandleHandshakeAck
  <2>3. CASE HandleFin(m) \/ HandleData(m) \/ HandleClosing(m)
    <3>1. /\ [conn[active_conn] EXCEPT !.peer_seq = m.seq + 1] \in Conns
          /\ [conn[active_conn] EXCEPT !.peer_seq = @ + m.len] \in Conns
      BY <1>2, <1>4 DEF Conns, Segments
    <3>2. Segment(conn[active_conn], "ACK") \in Outs  BY <1>4, SegmentTyped
    <3>3. QED  BY <1>3, <1>4, <2>3, <3>1, <3>2 DEF HandleFin, HandleData, HandleClosing
  <2>4. QED  BY <2>1, <2>2, <2>3 DEF NetPoll
<1>8. TypeOK'  BY <1>1, <1>5, <1>6, <1>7 DEF TypeOK, Conns, Outs
<1>9. HasConn'  BY <1>1, <1>3 DEF HasConn
<1>10. QED  BY <1>8, <1>9

LEMMA ListenTyped == ASSUME TypeInv, NEW s \in Servers, Listen(s)  PROVE TypeInv'
<1>1. NewConn \in Conns  BY DEF NewConn, Conns
<1>2. <<>> \in Seq(Bytes) /\ Len(<<>>) = 0  OBVIOUS
<1>3. conn \in [Servers -> Conns]  BY DEF TypeInv, TypeOK, Conns
<1>4. conn' \in [Servers -> Conns]  BY <1>1, <1>3 DEF Listen
<1>5. phase' \in [Servers -> {"none", "accept", "recv", "close"}]
  BY DEF Listen, TypeInv, TypeOK
<1>6. taken' \in [Servers -> Seq(Bytes)]  BY <1>2 DEF Listen, TypeInv, TypeOK
<1>7. recv_buf' \in Seq(Bytes) /\ Len(recv_buf') <= RECV_BUF_SIZE  BY <1>2 DEF Listen
<1>8. /\ state' \in States /\ active_conn' \in Servers /\ got_fin' \in BOOLEAN
      /\ UNCHANGED <<out, client, sent, heard>>
  BY DEF Listen, clientVars, States
<1>9. TypeOK'
  BY <1>4, <1>5, <1>6, <1>7, <1>8 DEF TypeInv, TypeOK, Conns
<1>10. HasConn'  BY <1>8 DEF HasConn
<1>11. QED  BY <1>9, <1>10 DEF TypeInv

LEMMA AnswerTyped ==
    ASSUME TypeInv, NEW s \in Servers, phase[s] = "recv", AnswerAndClose(s),
           recv_buf' \in Seq(Bytes), Len(recv_buf') <= RECV_BUF_SIZE,
           taken' \in [Servers -> Seq(Bytes)]
    PROVE  TypeInv'
<1> USE DEF TypeInv
<1> DEFINE k == AfterReply(conn[s])
<1>1. conn \in [Servers -> Conns] /\ out \subseteq Outs  BY DEF TypeOK, Conns, Outs
<1>2. k \in Conns
  <2>1. conn[s] \in Conns /\ conn[s].my_seq + REPLY_LEN \in Nat  BY <1>1 DEF Conns
  <2>2. QED  BY <2>1, ConnEdited DEF AfterReply
<1>3. Reply(conn[s]) \subseteq Outs  BY <1>1, ReplyTyped
<1>4. /\ out' = out \cup Reply(conn[s]) \cup {Segment(k, "FIN")}
      /\ conn' = [conn EXCEPT ![s] = [k EXCEPT !.my_seq = @ + 1]]
      /\ state' = "CLOSING" /\ phase' = [phase EXCEPT ![s] = "close"]
      /\ UNCHANGED <<active_conn, got_fin, client, sent, heard>>
  BY DEF AnswerAndClose, clientVars
<1> HIDE DEF k
<1>5. k \in Conns /\ [k EXCEPT !.my_seq = @ + 1] \in Conns
  <2>1. k.my_seq + 1 \in Nat  BY <1>2 DEF Conns
  <2>2. QED  BY <1>2, <2>1, ConnEdited
<1>6. Segment(k, "FIN") \in Outs  BY <1>5, SegmentTyped
<1>7. conn' \in [Servers -> Conns] /\ out' \subseteq Outs  BY <1>1, <1>5, <1>3, <1>4, <1>6
<1>8. TypeOK'  BY <1>4, <1>7 DEF TypeOK, States, Conns, Outs
<1>9. HasConn'  BY <1>4 DEF HasConn, TypeOK
<1>10. QED  BY <1>8, <1>9

(* Taking the first bytes of recv_buf.                                     *)
LEMMA TakenTyped ==
    ASSUME TypeOK, recv_buf # <<>>
    PROVE  LET n == Smaller(Len(recv_buf), RECV_MAX)
           IN  /\ n \in 1 .. Len(recv_buf)
               /\ SubSeq(recv_buf, 1, n) \in Seq(Bytes)
               /\ SubSeq(recv_buf, n + 1, Len(recv_buf)) \in Seq(Bytes)
               /\ Len(SubSeq(recv_buf, 1, n)) = n
               /\ Len(SubSeq(recv_buf, n + 1, Len(recv_buf))) = Len(recv_buf) - n
<1> DEFINE n == Smaller(Len(recv_buf), RECV_MAX)
<1>1. recv_buf \in Seq(Bytes) /\ Len(recv_buf) \in Nat \ {0}  BY DEF TypeOK
<1>2. n \in 1 .. Len(recv_buf)  BY <1>1 DEF Smaller
<1> HIDE DEF n
<1>3. QED  BY <1>1, <1>2 DEF n

LEMMA ServerTyped ==
    ASSUME TypeInv, NEW s \in Servers, Start(s) \/ Kill(s) \/ Server(s)  PROVE TypeInv'
<1> USE DEF TypeInv
<1>1. CASE Kill(s) \/ AcceptReturns(s)
  <2>1. /\ UNCHANGED <<state, active_conn, conn, recv_buf, got_fin, taken, out, client, sent, heard>>
        /\ phase' \in [Servers -> {"none", "accept", "recv", "close"}]
        /\ state # "CLOSED" \/ Kill(s)
    BY <1>1 DEF Kill, AcceptReturns, kernelVars, clientVars, TypeOK
  <2>2. TypeOK'  BY <2>1 DEF TypeOK
  <2>3. HasConn'  BY <1>1, <2>1 DEF HasConn, Kill, AcceptReturns, TypeOK
  <2>4. QED  BY <2>2, <2>3
<1>2. CASE Listen(s)  BY <1>2, ListenTyped
<1>3. CASE RecvReturns(s)
  <2> DEFINE n == Smaller(Len(recv_buf), RECV_MAX)
  <2>1. /\ phase[s] = "recv" /\ recv_buf # <<>> /\ AnswerAndClose(s)
        /\ taken' = [taken EXCEPT ![s] = @ \o SubSeq(recv_buf, 1, n)]
        /\ recv_buf' = SubSeq(recv_buf, n + 1, Len(recv_buf))
    BY <1>3 DEF RecvReturns
  <2>2. /\ SubSeq(recv_buf, 1, n) \in Seq(Bytes)
        /\ SubSeq(recv_buf, n + 1, Len(recv_buf)) \in Seq(Bytes)
        /\ n \in 1 .. Len(recv_buf)
        /\ Len(SubSeq(recv_buf, n + 1, Len(recv_buf))) = Len(recv_buf) - n
    BY <2>1, TakenTyped
  <2> HIDE DEF n
  <2>3. taken' \in [Servers -> Seq(Bytes)]  BY <2>1, <2>2 DEF TypeOK
  <2>4. recv_buf' \in Seq(Bytes) /\ Len(recv_buf') <= RECV_BUF_SIZE  BY <2>1, <2>2 DEF TypeOK
  <2>5. QED  BY <2>1, <2>3, <2>4, AnswerTyped
<1>4. CASE RecvReturnsNothing(s)
  BY <1>4, AnswerTyped DEF RecvReturnsNothing, TypeOK
<1>5. QED  BY <1>1, <1>2, <1>3, <1>4 DEF Start, Server, AcceptTimesOut, CloseReturns

LEMMA NextTyped == TypeInv /\ [Next]_vars => TypeInv'
<1> SUFFICES ASSUME TypeInv, [Next]_vars PROVE TypeInv'  OBVIOUS
<1>1. CASE UNCHANGED vars
  BY <1>1 DEF vars, kernelVars, serverVars, clientVars, TypeInv, TypeOK, HasConn
<1>2. QED  BY <1>1, ClientTyped, NetPollTyped, ServerTyped DEF Next

LEMMA TypeInvariant == Spec => []TypeInv
BY InitTyped, NextTyped, PTL DEF Spec

(* Types hold, and recv_buf never overflows, for every network.            *)
THEOREM TcpTyped == Spec => []TypeOK
<1>1. TypeInv => TypeOK  BY DEF TypeInv
<1>2. QED  BY <1>1, TypeInvariant, PTL

(***************************************************************************)
(* The calls of the server and the state of tcp.c.                         *)
(***************************************************************************)
(* An open connection is marked as connected.                              *)
OpenIsConnected == state = "ESTABLISHED" => conn[active_conn].connected

PhaseInv == PhaseMatchesState /\ OpenIsConnected

LEMMA NetPollPhases ==
    ASSUME TypeInv, PhaseInv, NEW m, NetPoll(m)
    PROVE  PhaseInv'
<1> USE DEF PhaseInv
<1>1. UNCHANGED <<active_conn, phase>> /\ active_conn \in Servers
  BY DEF NetPoll, HandleSyn, HandleHandshakeAck, HandleFin, HandleData, HandleClosing,
         serverVars, TypeInv, HasConn
<1>2. conn \in [Servers -> Conns]  BY DEF TypeInv, TypeOK, Conns
<1>3. conn[active_conn] \in Conns  BY <1>1, <1>2
<1>4. CASE HandleSyn(m)
  BY <1>1, <1>4 DEF HandleSyn, PhaseMatchesState, OpenIsConnected
<1>5. CASE HandleClosing(m)
  BY <1>1, <1>5 DEF HandleClosing, PhaseMatchesState, OpenIsConnected
<1>6. CASE HandleHandshakeAck(m) \/ HandleFin(m) \/ HandleData(m)
  <2>1. state \in {"SYN_RCVD", "ESTABLISHED"} /\ state' = "ESTABLISHED"
    BY <1>6 DEF HandleHandshakeAck, HandleFin, HandleData
  <2>2. conn'[active_conn].connected
    <3>1. CASE HandleHandshakeAck(m)
      BY <1>1, <1>2, <1>3, <3>1 DEF HandleHandshakeAck, Conns
    <3>2. CASE HandleFin(m)
      BY <1>1, <1>2, <1>3, <3>2 DEF HandleFin, OpenIsConnected, Conns
    <3>3. CASE HandleData(m)
      BY <1>1, <1>2, <1>3, <3>3 DEF HandleData, OpenIsConnected, Conns
    <3>4. QED  BY <1>6, <3>1, <3>2, <3>3
  <2>3. PhaseMatchesState'  BY <1>1, <2>1, <2>2 DEF PhaseMatchesState
  <2>4. OpenIsConnected'  BY <1>1, <2>2 DEF OpenIsConnected
  <2>5. QED  BY <2>3, <2>4
<1>7. QED  BY <1>4, <1>5, <1>6 DEF NetPoll

LEMMA ServerPhases ==
    ASSUME OneServer, TypeInv, PhaseInv, NEW s \in Servers, Start(s) \/ Kill(s) \/ Server(s)
    PROVE  PhaseInv'
<1> USE DEF PhaseInv
<1>1. \A r \in Servers : r = s  BY DEF OneServer
<1>2. phase \in [Servers -> {"none", "accept", "recv", "close"}]  BY DEF TypeInv, TypeOK
<1>3. CASE Listen(s)
  BY <1>1, <1>2, <1>3 DEF Listen, PhaseMatchesState, OpenIsConnected
<1>4. CASE Kill(s)
  <2>1. phase'[s] = "none" /\ UNCHANGED <<state, active_conn, conn>>
    BY <1>2, <1>4 DEF Kill, kernelVars
  <2>2. QED  BY <1>1, <2>1 DEF PhaseMatchesState, OpenIsConnected
<1>5. CASE AcceptReturns(s)
  <2>1. /\ phase'[s] = "recv" /\ phase[s] = "accept" /\ state = "ESTABLISHED"
        /\ UNCHANGED <<state, active_conn, conn>>
    BY <1>2, <1>5 DEF AcceptReturns, kernelVars
  <2>2. QED  BY <1>1, <2>1 DEF PhaseMatchesState, OpenIsConnected
<1>6. CASE RecvReturns(s) \/ RecvReturnsNothing(s)
  <2>1. /\ phase'[s] = "close" /\ phase[s] = "recv" /\ state' = "CLOSING"
        /\ UNCHANGED active_conn
    BY <1>2, <1>6 DEF RecvReturns, RecvReturnsNothing, AnswerAndClose
  <2>2. QED  BY <1>1, <2>1 DEF PhaseMatchesState, OpenIsConnected
<1>7. QED  BY <1>3, <1>4, <1>5, <1>6 DEF Start, Server, AcceptTimesOut, CloseReturns

LEMMA NextPhases ==
    ASSUME OneServer, TypeInv, PhaseInv, [Next]_vars  PROVE PhaseInv'
<1>1. CASE UNCHANGED vars
  BY <1>1 DEF vars, kernelVars, serverVars, PhaseInv, PhaseMatchesState, OpenIsConnected
<1>2. ASSUME NEW c \in Clients,
             Connect(c) \/ HearSynAck(c) \/ SendByte(c) \/ Close(c) \/ HearFin(c)
      PROVE  PhaseInv'
  BY <1>2 DEF Connect, HearSynAck, SendByte, Close, HearFin, kernelVars, serverVars,
              PhaseInv, PhaseMatchesState, OpenIsConnected
<1>3. QED  BY <1>1, <1>2, NetPollPhases, ServerPhases DEF Next

LEMMA PhaseInvariant == ASSUME OneServer  PROVE Spec => []PhaseInv
<1>1. Init => PhaseInv  BY DEF Init, PhaseInv, PhaseMatchesState, OpenIsConnected
<1>2. TypeInv /\ PhaseInv /\ [Next]_vars => PhaseInv'  BY NextPhases
<1>3. QED  BY <1>1, <1>2, TypeInvariant, PTL DEF Spec

(* With one server, its calls agree with the state of the connection, and  *)
(* it reads only from one that is open and its own.                        *)
THEOREM PhasesMatch == ASSUME OneServer  PROVE Spec => []PhaseMatchesState
<1>1. PhaseInv => PhaseMatchesState  BY DEF PhaseInv
<1>2. QED  BY <1>1, PhaseInvariant, PTL

(***************************************************************************)
(* The handshake.                                                          *)
(***************************************************************************)
(* Only a client that heard the SYN of the server sends data.              *)
SendersConnected == \A c \in Clients : sent[c] > 0 => Connected(c)

HandshakeInv == EstablishedByBoth /\ SendersConnected

(* What arrives without the flag SYN is from a connected client.           *)
LEMMA WireFromConnected ==
    ASSUME TypeInv, SendersConnected, NEW c \in Clients, NEW m \in Wire(c), m.flag # "SYN"
    PROVE  Connected(c) /\ m.from = c
<1>1. sent[c] \in Nat  BY DEF TypeInv, TypeOK
<1>2. CASE m = Syn(c)  BY <1>2 DEF Syn
<1>3. CASE m = Ack(c) /\ Connected(c)  BY <1>3 DEF Ack
<1>4. ASSUME NEW i \in 0 .. sent[c], NEW n \in 1 .. sent[c], m = Data(c, i, n)
      PROVE  Connected(c) /\ m.from = c
  BY <1>1, <1>4 DEF Data, SendersConnected
<1>5. ASSUME NEW i \in 0 .. sent[c], m = Fin(c, i), client[c] = "closed"
      PROVE  Connected(c) /\ m.from = c
  BY <1>5 DEF Fin, Connected
<1>6. QED  BY <1>2, <1>3, <1>4, <1>5 DEF Wire

(* A segment with the ports of the connection is from its peer.            *)
LEMMA PortsTell ==
    ASSUME DistinctPorts, TypeInv, active_conn \in Servers,
           NEW c \in Clients, NEW m, m.from = c, ForConnection(m)
    PROVE  conn[active_conn].peer = c
<1>1. conn[active_conn].peer \in Clients \cup {Nobody}  BY DEF TypeInv, TypeOK
<1>2. QED  BY <1>1 DEF ForConnection, DistinctPorts

LEMMA ClientHandshakes ==
    ASSUME TypeInv, HandshakeInv, NEW c \in Clients,
           Connect(c) \/ HearSynAck(c) \/ SendByte(c) \/ Close(c) \/ HearFin(c)
    PROVE  HandshakeInv'
<1> USE DEF HandshakeInv
<1>1. UNCHANGED <<state, active_conn, conn>>
  BY DEF Connect, HearSynAck, SendByte, Close, HearFin, kernelVars
<1>2. client \in [Clients -> {"idle", "syn_sent", "established", "closed"}]
      /\ sent \in [Clients -> 0 .. REQUEST_LEN]
  BY DEF TypeInv, TypeOK
<1>3. \A d \in Clients : Connected(d) => Connected(d)'
  BY <1>2 DEF Connect, HearSynAck, SendByte, Close, HearFin, Connected
<1>4. \A d \in Clients : sent'[d] > 0 => sent[d] > 0 \/ Connected(d)
  BY <1>2 DEF Connect, HearSynAck, SendByte, Close, HearFin, Connected
<1>5. EstablishedByBoth'  BY <1>1, <1>3 DEF EstablishedByBoth
<1>6. SendersConnected'  BY <1>3, <1>4 DEF SendersConnected
<1>7. QED  BY <1>5, <1>6

LEMMA NetPollHandshakes ==
    ASSUME DistinctPorts, TypeInv, HandshakeInv, NEW c \in Clients, NEW m \in Wire(c), NetPoll(m)
    PROVE  HandshakeInv'
<1> USE DEF HandshakeInv
<1>1. UNCHANGED <<active_conn, client, sent>> /\ active_conn \in Servers
  BY DEF NetPoll, HandleSyn, HandleHandshakeAck, HandleFin, HandleData, HandleClosing,
         clientVars, TypeInv, HasConn
<1>2. conn \in [Servers -> Conns]  BY DEF TypeInv, TypeOK, Conns
<1>3. SendersConnected'  BY <1>1 DEF SendersConnected, Connected
<1>4. CASE HandleSyn(m) \/ HandleClosing(m)
  BY <1>3, <1>4 DEF HandleSyn, HandleClosing, EstablishedByBoth
<1>5. CASE HandleHandshakeAck(m)
  <2>1. Connected(c) /\ m.from = c  BY <1>5, WireFromConnected DEF HandleHandshakeAck
  <2>2. conn[active_conn].peer = c  BY <1>1, <1>5, <2>1, PortsTell DEF HandleHandshakeAck
  <2>3. conn'[active_conn].peer = c
    BY <1>1, <1>2, <1>5, <2>2 DEF HandleHandshakeAck, Conns
  <2>4. QED  BY <1>1, <1>3, <2>1, <2>3 DEF EstablishedByBoth, Connected
<1>6. CASE HandleFin(m) \/ HandleData(m)
  <2>1. state = "ESTABLISHED"  BY <1>6 DEF HandleFin, HandleData
  <2>2. conn'[active_conn].peer = conn[active_conn].peer
    BY <1>1, <1>2, <1>6 DEF HandleFin, HandleData, Conns
  <2>3. QED  BY <1>1, <1>3, <2>1, <2>2 DEF EstablishedByBoth, Connected
<1>7. QED  BY <1>4, <1>5, <1>6 DEF NetPoll

LEMMA ServerHandshakes ==
    ASSUME HandshakeInv, NEW s \in Servers, Start(s) \/ Kill(s) \/ Server(s)
    PROVE  HandshakeInv'
<1> USE DEF HandshakeInv
<1>1. UNCHANGED <<client, sent>>
  BY DEF Start, Kill, Server, AcceptReturns, AcceptTimesOut, RecvReturns, RecvReturnsNothing,
         AnswerAndClose, CloseReturns, Listen, clientVars
<1>2. state' # "ESTABLISHED" \/ UNCHANGED <<state, active_conn, conn>>
  BY DEF Start, Kill, Server, AcceptReturns, AcceptTimesOut, RecvReturns, RecvReturnsNothing,
         AnswerAndClose, CloseReturns, Listen, kernelVars
<1>3. QED  BY <1>1, <1>2 DEF EstablishedByBoth, SendersConnected, Connected

LEMMA NextHandshakes ==
    ASSUME DistinctPorts, TypeInv, HandshakeInv, [Next]_vars  PROVE HandshakeInv'
<1>1. CASE UNCHANGED vars
  BY <1>1 DEF vars, kernelVars, clientVars, HandshakeInv, EstablishedByBoth,
              SendersConnected, Connected
<1>2. QED  BY <1>1, ClientHandshakes, NetPollHandshakes, ServerHandshakes DEF Next

LEMMA HandshakeInvariant == ASSUME DistinctPorts  PROVE Spec => []HandshakeInv
<1>1. Init => HandshakeInv  BY DEF Init, HandshakeInv, EstablishedByBoth, SendersConnected
<1>2. TypeInv /\ HandshakeInv /\ [Next]_vars => HandshakeInv'  BY NextHandshakes
<1>3. QED  BY <1>1, <1>2, TypeInvariant, PTL DEF Spec

(* When no two clients share a port, a connection that is established has  *)
(* completed the handshake at the other end too, for any number of servers.*)
THEOREM HandshakesComplete == ASSUME DistinctPorts  PROVE Spec => []EstablishedByBoth
<1>1. HandshakeInv => EstablishedByBoth  BY DEF HandshakeInv
<1>2. QED  BY <1>1, HandshakeInvariant, PTL

(***************************************************************************)
(* The byte stream.                                                        *)
(***************************************************************************)
(* Nothing is received before the handshake ends and nothing taken before  *)
(* the reply; what is expected next is what follows recv_buf, unless that  *)
(* is full, when the peer is told that bytes arrived which were dropped.   *)
Expecting(s) ==
    /\ state \in {"LISTEN", "SYN_RCVD"} => recv_buf = <<>>
    /\ state \in {"LISTEN", "SYN_RCVD", "ESTABLISHED"} => taken[s] = <<>>
    /\ state = "SYN_RCVD" => conn[s].peer_seq = 1
    /\ state = "ESTABLISHED" /\ ~got_fin =>
          Len(recv_buf) = RECV_BUF_SIZE \/ conn[s].peer_seq = 1 + Len(recv_buf)

Prefix(s) ==
    \A i \in 1 .. Len(Received(s)) : Received(s)[i] = [from |-> conn[s].peer, at |-> i - 1]

StreamInv ==
    \A s \in Servers : active_conn = s => Expecting(s) /\ (~got_fin => Prefix(s))

(* Without what was taken, the stream is recv_buf.                         *)
LEMMA NothingTaken ==
    ASSUME TypeInv, NEW s \in Servers, taken[s] = <<>>
    PROVE  Received(s) = recv_buf
BY DEF Received, TypeInv, TypeOK

(* The SYN takes up the first sequence number.                             *)
LEMMA SynIsFirst ==
    ASSUME NEW c \in Clients, TypeInv, NEW m \in Wire(c), m.flag = "SYN"
    PROVE  m.seq = 0
<1>1. CASE m = Syn(c)  BY <1>1 DEF Syn
<1>2. CASE m.flag \in {"ACK", "DATA", "FIN"}  BY <1>2
<1>3. QED  BY <1>1, <1>2 DEF Wire, Ack, Data, Fin

(* What memcpy behind the bytes that wait gives.                           *)
LEMMA BytesJoined ==
    ASSUME NEW q \in Seq(Bytes), NEW r \in Seq(Bytes)
    PROVE  /\ q \o r \in Seq(Bytes)
           /\ Len(q \o r) = Len(q) + Len(r)
           /\ \A i \in 1 .. Len(q) + Len(r) :
                 (q \o r)[i] = IF i <= Len(q) THEN q[i] ELSE r[i - Len(q)]
BY ConcatProperties, ZenonT(60)

(* In order, the bytes copied continue the stream.                         *)
LEMMA CopyContinues ==
    ASSUME TypeInv, NEW s \in Servers, active_conn = s, NEW c \in Clients,
           NEW m \in Segments(c), m.seq > 0, InOrder(m), conn[s].peer = c,
           Len(recv_buf) = RECV_BUF_SIZE \/ conn[s].peer_seq = 1 + Len(recv_buf),
           \A i \in 1 .. Len(recv_buf) : recv_buf[i] = [from |-> c, at |-> i - 1]
    PROVE  LET buf == recv_buf \o SubSeq(Payload(m), 1, Copied(m))
           IN  /\ buf \in Seq(Bytes)
               /\ \A i \in 1 .. Len(buf) : buf[i] = [from |-> c, at |-> i - 1]
               /\ Len(buf) = RECV_BUF_SIZE \/ conn[s].peer_seq + m.len = 1 + Len(buf)
<1> DEFINE new == SubSeq(Payload(m), 1, Copied(m))
<1> DEFINE buf == recv_buf \o new
<1>1. /\ recv_buf \in Seq(Bytes) /\ Len(recv_buf) \in Nat /\ Len(recv_buf) <= RECV_BUF_SIZE
      /\ m.len \in Nat /\ m.seq \in Nat /\ m.from = c /\ RECV_BUF_SIZE \in Nat
  BY DEF TypeInv, TypeOK, Segments
<1>2. /\ Copied(m) \in 0 .. m.len /\ new \in Seq(Bytes) /\ Len(new) = Copied(m)
      /\ Len(recv_buf) + Copied(m) <= RECV_BUF_SIZE
  BY CopiedFits DEF TypeInv
<1>3. Payload(m) \in Seq(Bytes) /\ Len(Payload(m)) = m.len  BY PayloadTyped
<1>4. \A j \in 1 .. Copied(m) : new[j] = [from |-> c, at |-> m.seq + j - 2]
  <2>1. TAKE j \in 1 .. Copied(m)
  <2>2. new[j] = Payload(m)[j]  BY <1>1, <1>2, <1>3
  <2>3. QED  BY <1>1, <1>2, <2>2 DEF Payload
<1>5. Copied(m) > 0 => m.seq = 1 + Len(recv_buf)
  <2>1. m.seq = conn[s].peer_seq  BY DEF InOrder
  <2>2. Copied(m) > 0 => Len(recv_buf) # RECV_BUF_SIZE  BY <1>1, <1>2
  <2>3. QED  BY <2>1, <2>2
<1>6. Copied(m) = m.len \/ Len(recv_buf) + Copied(m) = RECV_BUF_SIZE
  BY <1>1 DEF Copied, Smaller
<1> HIDE DEF new
<1>7. /\ buf \in Seq(Bytes) /\ Len(buf) = Len(recv_buf) + Copied(m)
      /\ \A i \in 1 .. Len(recv_buf) + Copied(m) :
            buf[i] = IF i <= Len(recv_buf) THEN recv_buf[i] ELSE new[i - Len(recv_buf)]
  <2>1. recv_buf \in Seq(Bytes) /\ new \in Seq(Bytes) /\ Len(new) = Copied(m)  BY <1>1, <1>2
  <2>2. /\ recv_buf \o new \in Seq(Bytes)
        /\ Len(recv_buf \o new) = Len(recv_buf) + Len(new)
        /\ \A i \in 1 .. Len(recv_buf) + Len(new) : (recv_buf \o new)[i] =
              IF i <= Len(recv_buf) THEN recv_buf[i] ELSE new[i - Len(recv_buf)]
    BY <2>1, BytesJoined, ZenonT(60)
  <2>3. QED  BY <2>1, <2>2, Zenon
<1> HIDE DEF buf
<1>8. ASSUME NEW i \in 1 .. Len(buf)
      PROVE  buf[i] = [from |-> c, at |-> i - 1]
  <2>1. /\ i \in Nat /\ i >= 1 /\ i <= Len(recv_buf) + Copied(m)
        /\ buf[i] = IF i <= Len(recv_buf) THEN recv_buf[i] ELSE new[i - Len(recv_buf)]
    <3>1. i \in 1 .. Len(recv_buf) + Copied(m)  BY <1>7
    <3>2. QED  BY <1>1, <1>2, <1>7, <3>1
  <2>2. CASE i <= Len(recv_buf)
    <3>1. i \in 1 .. Len(recv_buf)  BY <1>1, <2>1, <2>2
    <3>2. QED  BY <2>1, <2>2, <3>1
  <2>3. CASE ~(i <= Len(recv_buf))
    <3>1. i - Len(recv_buf) \in 1 .. Copied(m) /\ Copied(m) > 0  BY <1>1, <1>2, <2>1, <2>3
    <3>2. m.seq + (i - Len(recv_buf)) - 2 = i - 1  BY <1>1, <1>5, <2>1, <3>1
    <3>3. buf[i] = new[i - Len(recv_buf)]  BY <2>1, <2>3
    <3>4. QED  BY <1>4, <3>1, <3>2, <3>3
  <2>4. QED  BY <2>2, <2>3
<1>9. Len(buf) = RECV_BUF_SIZE \/ conn[s].peer_seq + m.len = 1 + Len(buf)
  <2>1. conn[s].peer_seq \in Nat  BY DEF TypeInv, TypeOK
  <2>2. Copied(m) \in Nat /\ Len(buf) = Len(recv_buf) + Copied(m)  BY <1>1, <1>2, <1>7
  <2>3. CASE Len(recv_buf) + Copied(m) = RECV_BUF_SIZE  BY <2>2, <2>3
  <2>4. CASE Copied(m) = m.len /\ Len(recv_buf) = RECV_BUF_SIZE
    <3>1. Len(recv_buf) + Copied(m) = RECV_BUF_SIZE  BY <1>1, <1>2, <2>2, <2>4
    <3>2. QED  BY <2>2, <3>1
  <2>5. CASE Copied(m) = m.len /\ conn[s].peer_seq = 1 + Len(recv_buf)
    <3>1. \A p, l, n \in Nat : p = 1 + l => p + n = 1 + (l + n)  OBVIOUS
    <3>2. conn[s].peer_seq + m.len = 1 + (Len(recv_buf) + m.len)
      <4>1. Len(recv_buf) \in Nat /\ m.len \in Nat  BY <1>1
      <4>2. QED  BY <2>1, <2>5, <3>1, <4>1, Zenon
    <3>3. QED  BY <2>2, <2>5, <3>2
  <2>6. QED  BY <1>6, <2>3, <2>4, <2>5
<1>10. QED  BY <1>7, <1>8, <1>9 DEF buf, new

(* tcp_recv moves bytes from recv_buf to the server and changes none.      *)
LEMMA TakenAndLeft ==
    ASSUME NEW q \in Seq(Bytes), NEW n \in 1 .. Len(q)
    PROVE  (<<>> \o SubSeq(q, 1, n)) \o SubSeq(q, n + 1, Len(q)) = q
<1>1. 1 \in 1 .. Len(q) + 1 /\ n \in 1 - 1 .. Len(q) /\ Len(q) \in n .. Len(q)
  OBVIOUS
<1>2. SubSeq(q, 1, n) \o SubSeq(q, n + 1, Len(q)) = SubSeq(q, 1, Len(q))
  BY <1>1, ConcatAdjacentSubSeq, Zenon
<1>3. SubSeq(q, 1, Len(q)) = q  BY SubSeqFull, Zenon
<1>4. SubSeq(q, 1, n) \in Seq(Bytes)  OBVIOUS
<1>5. <<>> \o SubSeq(q, 1, n) = SubSeq(q, 1, n)  BY <1>4, ConcatEmptySeq, Zenon
<1>6. QED  BY <1>2, <1>3, <1>5, Zenon

LEMMA NetPollStream ==
    ASSUME DistinctPorts, TypeInv, TypeInv', HandshakeInv, StreamInv,
           NEW c \in Clients, NEW m \in Wire(c), NetPoll(m)
    PROVE  StreamInv'
<1>1. UNCHANGED <<active_conn, taken>> /\ active_conn \in Servers
  BY DEF NetPoll, HandleSyn, HandleHandshakeAck, HandleFin, HandleData, HandleClosing,
         serverVars, TypeInv, HasConn
<1>2. conn \in [Servers -> Conns] /\ conn[active_conn] \in Conns
  BY <1>1 DEF TypeInv, TypeOK, Conns
<1>3. m \in Segments(c) /\ (m.flag = "DATA" => m.seq > 0)  BY WireTyped DEF TypeInv
<1> DEFINE s == active_conn
<1>4. s \in Servers /\ Expecting(s) /\ (~got_fin => Prefix(s))  BY <1>1 DEF StreamInv
<1> SUFFICES Expecting(s)' /\ (~got_fin' => Prefix(s)')  BY <1>1 DEF StreamInv
<1>5. CASE HandleSyn(m)
  <2>1. recv_buf' = <<>> /\ taken'[s] = <<>>  BY <1>1, <1>4, <1>5 DEF HandleSyn, Expecting
  <2>2. m.seq = 0  BY <1>5, SynIsFirst DEF HandleSyn
  <2>3. conn'[s].peer_seq = 1  BY <1>2, <1>4, <1>5, <2>2 DEF HandleSyn, Conns
  <2>4. Expecting(s)'  BY <1>1, <1>5, <2>1, <2>3 DEF HandleSyn, Expecting
  <2>5. Received(s)' = <<>>  BY <1>1, <2>1 DEF Received
  <2>6. QED  BY <2>4, <2>5 DEF Prefix
<1>6. CASE HandleHandshakeAck(m)
  <2>1. /\ recv_buf' = <<>> /\ taken'[s] = <<>> /\ state' = "ESTABLISHED"
        /\ conn[s].peer_seq = 1
    BY <1>1, <1>4, <1>6 DEF HandleHandshakeAck, Expecting
  <2>2. conn'[s].peer_seq = 1  BY <1>2, <1>4, <1>6, <2>1 DEF HandleHandshakeAck, Conns
  <2>3. Expecting(s)'  BY <1>1, <2>1, <2>2 DEF Expecting
  <2>4. Received(s)' = <<>>  BY <1>1, <2>1 DEF Received
  <2>5. QED  BY <2>3, <2>4 DEF Prefix
<1>7. CASE HandleFin(m)
  BY <1>1, <1>4, <1>7 DEF HandleFin, Expecting
<1>8. CASE HandleData(m)
  <2>1. /\ state = "ESTABLISHED" /\ state' = state /\ got_fin' = got_fin /\ taken'[s] = <<>>
        /\ recv_buf' = recv_buf \o SubSeq(Payload(m), 1, Copied(m))
        /\ m.flag = "DATA" /\ m.seq > 0 /\ m.from = c
        /\ InOrder(m) /\ ForConnection(m)
    BY <1>1, <1>3, <1>4, <1>8 DEF HandleData, Expecting, Segments
  <2>2. CASE got_fin  BY <1>1, <2>1, <2>2 DEF Expecting
  <2>3. CASE ~got_fin
    <3>1. conn[s].peer = c  BY <1>1, <2>1, PortsTell
    <3>2. conn'[s].peer = c /\ conn'[s].peer_seq = conn[s].peer_seq + m.len
      BY <1>2, <1>4, <1>8, <3>1 DEF HandleData, Conns
    <3>3. Received(s) = recv_buf /\ Received(s)' = recv_buf'
      <4>1. taken[s] = <<>>  BY <1>1, <2>1
      <4>2. recv_buf \in Seq(Bytes) /\ recv_buf' \in Seq(Bytes)  BY DEF TypeInv, TypeOK
      <4>3. QED  BY <1>1, <2>1, <4>1, <4>2, ConcatEmptySeq DEF Received
    <3>4. /\ \A i \in 1 .. Len(recv_buf) : recv_buf[i] = [from |-> c, at |-> i - 1]
          /\ Len(recv_buf) = RECV_BUF_SIZE \/ conn[s].peer_seq = 1 + Len(recv_buf)
      BY <1>4, <2>1, <2>3, <3>1, <3>3 DEF Expecting, Prefix
    <3>5. /\ \A i \in 1 .. Len(recv_buf') : recv_buf'[i] = [from |-> c, at |-> i - 1]
          /\ Len(recv_buf') = RECV_BUF_SIZE
             \/ conn[s].peer_seq + m.len = 1 + Len(recv_buf')
      BY <1>3, <1>4, <2>1, <3>1, <3>4, CopyContinues
    <3>6. Expecting(s)'  BY <1>1, <2>1, <3>2, <3>5 DEF Expecting
    <3>7. Prefix(s)'  BY <1>1, <3>2, <3>3, <3>5 DEF Prefix
    <3>8. QED  BY <3>6, <3>7
  <2>4. QED  BY <2>2, <2>3
<1>9. CASE HandleClosing(m)
  <2>1. state' = "CLOSED" /\ UNCHANGED <<recv_buf, got_fin>>  BY <1>9 DEF HandleClosing
  <2>2. conn'[s].peer = conn[s].peer
    BY <1>2, <1>4, <1>9 DEF HandleClosing, Conns
  <2>3. QED  BY <1>1, <1>4, <2>1, <2>2 DEF Expecting, Prefix, Received
<1>10. QED  BY <1>5, <1>6, <1>7, <1>8, <1>9 DEF NetPoll

LEMMA RecvStream ==
    ASSUME OneServer, TypeInv, PhaseInv, StreamInv, NEW s \in Servers,
           RecvReturns(s) \/ RecvReturnsNothing(s)
    PROVE  StreamInv'
<1>1. phase[s] = "recv" /\ AnswerAndClose(s)  BY DEF RecvReturns, RecvReturnsNothing
<1>2. active_conn = s /\ state = "ESTABLISHED"
  BY <1>1 DEF PhaseInv, PhaseMatchesState
<1>3. taken[s] = <<>> /\ (~got_fin => Prefix(s))  BY <1>2 DEF StreamInv, Expecting
<1>4. state' = "CLOSING" /\ UNCHANGED <<active_conn, got_fin>>  BY <1>1 DEF AnswerAndClose
<1>5. conn'[s].peer = conn[s].peer
  <2>1. conn \in [Servers -> Conns]  BY DEF TypeInv, TypeOK, Conns
  <2>2. QED  BY <1>1, <2>1 DEF AnswerAndClose, AfterReply, Conns
<1>6. Received(s)' = Received(s)
  <2>1. CASE RecvReturnsNothing(s)  BY <2>1 DEF RecvReturnsNothing, Received
  <2>2. CASE RecvReturns(s)
    <3> DEFINE n == Smaller(Len(recv_buf), RECV_MAX)
    <3>1. /\ recv_buf # <<>> /\ taken' = [taken EXCEPT ![s] = @ \o SubSeq(recv_buf, 1, n)]
          /\ recv_buf' = SubSeq(recv_buf, n + 1, Len(recv_buf))
      BY <2>2 DEF RecvReturns
    <3>2. n \in 1 .. Len(recv_buf)  BY <3>1, TakenTyped DEF TypeInv
    <3> HIDE DEF n
    <3>3. recv_buf \in Seq(Bytes) /\ taken \in [Servers -> Seq(Bytes)]
      BY DEF TypeInv, TypeOK
    <3>4. taken'[s] = <<>> \o SubSeq(recv_buf, 1, n)  BY <1>3, <3>1, <3>3, Zenon
    <3>5. taken'[s] \o recv_buf' = recv_buf  BY <3>1, <3>2, <3>3, <3>4, TakenAndLeft, Zenon
    <3>6. taken[s] \o recv_buf = recv_buf  BY <1>3, <3>3, ConcatEmptySeq
    <3>7. QED  BY <3>5, <3>6 DEF Received
  <2>3. QED  BY <2>1, <2>2
<1>7. ~got_fin' => Prefix(s)'  BY <1>3, <1>4, <1>5, <1>6 DEF Prefix
<1>8. Expecting(s)'  BY <1>4 DEF Expecting
<1>9. QED  BY <1>2, <1>4, <1>7, <1>8 DEF StreamInv

LEMMA ServerStream ==
    ASSUME OneServer, TypeInv, PhaseInv, StreamInv, NEW s \in Servers,
           Start(s) \/ Kill(s) \/ Server(s)
    PROVE  StreamInv'
<1>1. CASE Listen(s)
  <2>1. /\ active_conn' = s /\ state' = "LISTEN" /\ recv_buf' = <<>> /\ taken'[s] = <<>>
    BY <1>1 DEF Listen, TypeInv, TypeOK
  <2>2. Received(s)' = <<>>  BY <2>1 DEF Received
  <2>3. QED  BY <2>1, <2>2 DEF StreamInv, Expecting, Prefix
<1>2. CASE Kill(s) \/ AcceptReturns(s)
  <2>1. UNCHANGED <<state, active_conn, conn, recv_buf, got_fin, taken>>
    BY <1>2 DEF Kill, AcceptReturns, kernelVars
  <2>2. QED  BY <2>1 DEF StreamInv, Expecting, Prefix, Received
<1>3. CASE RecvReturns(s) \/ RecvReturnsNothing(s)  BY <1>3, RecvStream
<1>4. QED  BY <1>1, <1>2, <1>3 DEF Start, Server, AcceptTimesOut, CloseReturns

LEMMA NextStream ==
    ASSUME OneServer, DistinctPorts, TypeInv, TypeInv', PhaseInv, HandshakeInv, StreamInv,
           [Next]_vars
    PROVE  StreamInv'
<1>1. ASSUME UNCHANGED <<state, active_conn, conn, recv_buf, got_fin, taken>>
      PROVE  StreamInv'
  BY <1>1 DEF StreamInv, Expecting, Prefix, Received
<1>2. CASE UNCHANGED vars  BY <1>1, <1>2 DEF vars, kernelVars, serverVars
<1>3. ASSUME NEW c \in Clients,
             Connect(c) \/ HearSynAck(c) \/ SendByte(c) \/ Close(c) \/ HearFin(c)
      PROVE  StreamInv'
  BY <1>1, <1>3 DEF Connect, HearSynAck, SendByte, Close, HearFin, kernelVars, serverVars
<1>4. QED  BY <1>2, <1>3, NetPollStream, ServerStream DEF Next

(* With one server, and clients that differ in their ports, the bytes that *)
(* the server gets are the beginning of what its peer sent, whatever the   *)
(* network loses, doubles or reorders, until a FIN comes.                  *)
THEOREM StreamKept == ASSUME OneServer, DistinctPorts  PROVE Spec => []ReceivedIsPrefix
<1>1. Init => StreamInv  BY DEF Init, StreamInv
<1>2. TypeInv /\ TypeInv' /\ PhaseInv /\ HandshakeInv /\ StreamInv /\ [Next]_vars => StreamInv'
  BY NextStream
<1>3. StreamInv => ReceivedIsPrefix  BY DEF StreamInv, ReceivedIsPrefix, Prefix
<1>4. QED
  BY <1>1, <1>2, <1>3, TypeInvariant, PhaseInvariant, HandshakeInvariant, PTL DEF Spec

(***************************************************************************)
(* The reply.                                                              *)
(***************************************************************************)
(* Every byte of the reply is in a segment of S for the client c.          *)
CoveredBy(c, S) ==
    \A i \in 1 .. REPLY_LEN : \E d \in S :
       d.to = c /\ d.flag = "DATA" /\ d.seq <= i /\ i < d.seq + d.len

(* Where a segment of the stream may lie.                                  *)
InStream(m, S) ==
    /\ m.flag = "SYN"  => m.seq = 0
    /\ m.flag = "DATA" => m.seq >= 1 /\ m.seq + m.len <= 1 + REPLY_LEN
    /\ m.flag = "FIN"  => m.seq = 1 + REPLY_LEN /\ CoveredBy(m.to, S)

(* Until the reply is sent, only the SYN has been counted.                 *)
OnlySynCounted ==
    state \in {"SYN_RCVD", "ESTABLISHED"} => conn[active_conn].my_seq = 1

ReplyInv == OnlySynCounted /\ \A m \in out : InStream(m, out)

(* The segment that holds the byte x begins at a multiple of its size.     *)
LEMMA BeginsAt ==
    ASSUME NEW M \in Nat \ {0}, NEW x \in Nat
    PROVE  \E o \in 0 .. x : o % M = 0 /\ x < o + M
<1>1. x = ((x \div M) * M) + (x % M) /\ (x % M) \in 0 .. M - 1 /\ (x \div M) \in Nat
  OBVIOUS
<1>2. \A q \in Nat : ((q * M) + 0) % M = 0 /\ q * M \in Nat
  OBVIOUS
<1> DEFINE o == (x \div M) * M
<1>3. o \in Nat /\ o % M = 0  BY <1>1, <1>2
<1>4. QED  BY <1>1, <1>3

LEMMA ReplyIsWhole ==
    ASSUME NEW k \in Conns, k.my_seq = 1
    PROVE  /\ \A d \in Reply(k) : d.flag = "DATA" /\ d.seq >= 1 /\ d.seq + d.len <= 1 + REPLY_LEN
           /\ CoveredBy(k.peer, Reply(k))
<1> DEFINE Piece(o) == [to |-> k.peer, flag |-> "DATA", seq |-> k.my_seq + o,
                        len |-> Smaller(MAX_SEGMENT, REPLY_LEN - o)]
<1>1. ASSUME NEW o \in 0 .. REPLY_LEN - 1
      PROVE  /\ Piece(o).to = k.peer /\ Piece(o).flag = "DATA" /\ Piece(o).seq = 1 + o
             /\ Piece(o).len \in Nat /\ Piece(o).len <= REPLY_LEN - o
             /\ Piece(o).len = MAX_SEGMENT \/ Piece(o).len = REPLY_LEN - o
  BY DEF Smaller
<1>2. \A d \in Reply(k) : \E o \in 0 .. REPLY_LEN - 1 : d = Piece(o)  BY DEF Reply
<1>3. \A o \in 0 .. REPLY_LEN - 1 : o % MAX_SEGMENT = 0 => Piece(o) \in Reply(k)
  BY DEF Reply
<1> HIDE DEF Piece
<1>4. \A d \in Reply(k) : d.flag = "DATA" /\ d.seq >= 1 /\ d.seq + d.len <= 1 + REPLY_LEN
  BY <1>1, <1>2
<1>5. ASSUME NEW i \in 1 .. REPLY_LEN
      PROVE  \E d \in Reply(k) :
                d.to = k.peer /\ d.flag = "DATA" /\ d.seq <= i /\ i < d.seq + d.len
  <2>0. i - 1 \in Nat /\ MAX_SEGMENT \in Nat \ {0}  OBVIOUS
  <2>1. PICK o \in 0 .. i - 1 : o % MAX_SEGMENT = 0 /\ i - 1 < o + MAX_SEGMENT
    BY <2>0, BeginsAt
  <2>2. o \in 0 .. REPLY_LEN - 1 /\ o <= i - 1  OBVIOUS
  <2>3. Piece(o) \in Reply(k)  BY <1>3, <2>1, <2>2
  <2>4. Piece(o).seq <= i /\ i < Piece(o).seq + Piece(o).len
    <3>1. Piece(o).seq = 1 + o /\ 1 + o <= i  BY <1>1, <2>2
    <3>2. CASE Piece(o).len = MAX_SEGMENT  BY <2>1, <3>1, <3>2
    <3>3. CASE Piece(o).len = REPLY_LEN - o  BY <2>2, <3>1, <3>3
    <3>4. QED  BY <1>1, <2>2, <3>1, <3>2, <3>3
  <2>5. QED  BY <1>1, <2>2, <2>3, <2>4
<1>6. QED  BY <1>4, <1>5 DEF CoveredBy

(* Sending more leaves what was sent in the stream.                        *)
LEMMA SendingKeeps ==
    ASSUME NEW S, NEW T, S \subseteq T, NEW m, InStream(m, S)
    PROVE  InStream(m, T)
BY DEF InStream, CoveredBy

LEMMA ReplyInOut ==
    ASSUME NEW k \in Conns, k.my_seq = 1, NEW n \in Conns, n.peer = k.peer,
           n.my_seq = 1 + REPLY_LEN, NEW T, Reply(k) \subseteq T
    PROVE  \A m \in Reply(k) \cup {Segment(n, "FIN")} : InStream(m, T)
<1>1. CoveredBy(k.peer, T)  BY ReplyIsWhole DEF CoveredBy
<1>2. \A m \in Reply(k) : InStream(m, T)  BY ReplyIsWhole DEF InStream
<1>3. /\ Segment(n, "FIN").flag = "FIN" /\ Segment(n, "FIN").to = k.peer
      /\ Segment(n, "FIN").seq = 1 + REPLY_LEN
  BY DEF Segment
<1>4. InStream(Segment(n, "FIN"), T)  BY <1>1, <1>3 DEF InStream
<1>5. QED  BY <1>2, <1>4

(* The connection that a SYN opens.                                        *)
LEMMA SynAnswered ==
    ASSUME NEW j \in Conns, NEW c \in Clients, NEW m \in Segments(c)
    PROVE  [j EXCEPT !.peer = m.from, !.peer_seq = m.seq + 1, !.my_seq = 0] \in Conns
<1>1. m.from \in Clients /\ m.seq + 1 \in Nat  BY DEF Segments
<1>2. [j EXCEPT !.peer = m.from] \in Conns  BY <1>1 DEF Conns
<1>3. [j EXCEPT !.peer = m.from, !.peer_seq = m.seq + 1] \in Conns
  BY <1>1, <1>2, ConnEdited
<1>4. QED  BY <1>3, ConnEdited

LEMMA NetPollReply ==
    ASSUME TypeInv, ReplyInv, NEW c \in Clients, NEW m \in Wire(c), NetPoll(m)
    PROVE  ReplyInv'
<1>1. active_conn' = active_conn /\ active_conn \in Servers
  BY DEF NetPoll, HandleSyn, HandleHandshakeAck, HandleFin, HandleData, HandleClosing,
         serverVars, TypeInv, HasConn
<1>2. conn \in [Servers -> Conns] /\ conn[active_conn] \in Conns
  BY <1>1 DEF TypeInv, TypeOK, Conns
<1>3. \A n \in out : InStream(n, out)  BY DEF ReplyInv
<1>4. CASE HandleSyn(m)
  <2> DEFINE k == [conn[active_conn] EXCEPT !.peer = m.from, !.peer_seq = m.seq + 1, !.my_seq = 0]
  <2>1. /\ out' = out \cup {Segment(k, "SYN")}
        /\ conn' = [conn EXCEPT ![active_conn] = [k EXCEPT !.my_seq = 1]]
        /\ state' = "SYN_RCVD"
    BY <1>4 DEF HandleSyn
  <2>2. k.my_seq = 0  BY <1>2 DEF Conns
  <2>3. Segment(k, "SYN").flag = "SYN" /\ Segment(k, "SYN").seq = 0  BY <2>2 DEF Segment
  <2>4. InStream(Segment(k, "SYN"), out')  BY <2>3 DEF InStream
  <2> HIDE DEF k
  <2>5. conn'[active_conn].my_seq = 1
    <3>1. conn'[active_conn] = [k EXCEPT !.my_seq = 1]  BY <1>1, <1>2, <2>1
    <3>2. k \in Conns  BY <1>2, WireTyped, SynAnswered DEF k, TypeInv
    <3>3. QED  BY <3>1, <3>2 DEF Conns
  <2>6. \A n \in out : InStream(n, out')  BY <1>3, <2>1, SendingKeeps
  <2>7. \A n \in out' : InStream(n, out')  BY <2>1, <2>4, <2>6
  <2>8. QED  BY <1>1, <2>5, <2>7 DEF ReplyInv, OnlySynCounted
<1>5. CASE ~HandleSyn(m)
  <2>1. /\ conn'[active_conn].my_seq = conn[active_conn].my_seq
        /\ state' \in {"SYN_RCVD", "ESTABLISHED"} => state \in {"SYN_RCVD", "ESTABLISHED"}
    <3>1. CASE HandleHandshakeAck(m)  BY <1>1, <1>2, <3>1 DEF HandleHandshakeAck, Conns
    <3>2. CASE HandleFin(m)  BY <1>1, <1>2, <3>2 DEF HandleFin, Conns
    <3>3. CASE HandleData(m)  BY <1>1, <1>2, <3>3 DEF HandleData, Conns
    <3>4. CASE HandleClosing(m)  BY <1>1, <1>2, <3>4 DEF HandleClosing, Conns
    <3>5. QED  BY <1>5, <3>1, <3>2, <3>3, <3>4 DEF NetPoll
  <2>2. out' = out \/ out' = out \cup {Segment(conn[active_conn], "ACK")}
    BY <1>5 DEF NetPoll, HandleHandshakeAck, HandleFin, HandleData, HandleClosing
  <2>3. Segment(conn[active_conn], "ACK").flag = "ACK"  BY DEF Segment
  <2>4. InStream(Segment(conn[active_conn], "ACK"), out')  BY <2>3 DEF InStream
  <2>5. \A n \in out : InStream(n, out')  BY <1>3, <2>2, SendingKeeps
  <2>6. \A n \in out' : InStream(n, out')  BY <2>2, <2>4, <2>5
  <2>7. QED  BY <1>1, <2>1, <2>6 DEF ReplyInv, OnlySynCounted
<1>6. QED  BY <1>4, <1>5

LEMMA AnswerReply ==
    ASSUME TypeInv, PhaseInv, ReplyInv, NEW s \in Servers, phase[s] = "recv", AnswerAndClose(s)
    PROVE  ReplyInv'
<1> DEFINE n == AfterReply(conn[s])
<1>1. active_conn = s /\ state = "ESTABLISHED"  BY DEF PhaseInv, PhaseMatchesState
<1>2. conn[s] \in Conns /\ conn[s].my_seq = 1
  BY <1>1 DEF TypeInv, TypeOK, Conns, ReplyInv, OnlySynCounted
<1>3. n \in Conns /\ n.peer = conn[s].peer /\ n.my_seq = 1 + REPLY_LEN
  BY <1>2 DEF AfterReply, Conns
<1>4. out' = out \cup Reply(conn[s]) \cup {Segment(n, "FIN")} /\ state' = "CLOSING"
  BY DEF AnswerAndClose
<1> HIDE DEF n
<1>5. \A m \in Reply(conn[s]) \cup {Segment(n, "FIN")} : InStream(m, out')
  BY <1>2, <1>3, <1>4, ReplyInOut
<1>6. \A m \in out : InStream(m, out')  BY <1>4, SendingKeeps DEF ReplyInv
<1>7. \A m \in out' : InStream(m, out')  BY <1>4, <1>5, <1>6
<1>8. QED  BY <1>4, <1>7 DEF ReplyInv, OnlySynCounted

LEMMA NextReply == ASSUME TypeInv, PhaseInv, ReplyInv, [Next]_vars  PROVE ReplyInv'
<1>1. ASSUME UNCHANGED <<state, active_conn, conn, out>>  PROVE ReplyInv'
  BY <1>1 DEF ReplyInv, OnlySynCounted
<1>2. CASE UNCHANGED vars  BY <1>1, <1>2 DEF vars, kernelVars
<1>3. ASSUME NEW c \in Clients,
             Connect(c) \/ HearSynAck(c) \/ SendByte(c) \/ Close(c) \/ HearFin(c)
      PROVE  ReplyInv'
  BY <1>1, <1>3 DEF Connect, HearSynAck, SendByte, Close, HearFin, kernelVars
<1>4. ASSUME NEW s \in Servers, Start(s) \/ Kill(s) \/ Server(s)  PROVE ReplyInv'
  <2>1. CASE Listen(s)
    <3>1. state' = "LISTEN" /\ out' = out  BY <2>1 DEF Listen
    <3>2. QED  BY <3>1 DEF ReplyInv, OnlySynCounted
  <2>2. CASE Kill(s) \/ AcceptReturns(s)
    BY <1>1, <2>2 DEF Kill, AcceptReturns, kernelVars
  <2>3. CASE RecvReturns(s) \/ RecvReturnsNothing(s)
    BY <2>3, AnswerReply DEF RecvReturns, RecvReturnsNothing
  <2>4. QED  BY <1>4, <2>1, <2>2, <2>3 DEF Start, Server, AcceptTimesOut, CloseReturns
<1>5. QED  BY <1>2, <1>3, <1>4, NetPollReply DEF Next

(* With one server, what every client is sent is one stream: the SYN, the  *)
(* whole reply in segments, whatever their size, and the FIN behind it.    *)
THEOREM ReplyKept == ASSUME OneServer  PROVE Spec => []ReplyIsOneStream
<1>1. Init => ReplyInv  BY DEF Init, ReplyInv, OnlySynCounted
<1>2. TypeInv /\ PhaseInv /\ ReplyInv /\ [Next]_vars => ReplyInv'  BY NextReply
<1>3. ReplyInv => ReplyIsOneStream
  BY DEF ReplyInv, InStream, CoveredBy, ReplyIsOneStream
<1>4. QED  BY <1>1, <1>2, <1>3, TypeInvariant, PhaseInvariant, PTL DEF Spec
==============================================================================
