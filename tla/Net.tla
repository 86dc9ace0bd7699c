--------------------------------- MODULE Net ---------------------------------
(***************************************************************************)
(* net.c over the card of module Nic: ARP, the answer to echo requests,    *)
(* and net_ping, which the shell runs while the gopher server polls the    *)
(* same card and handles whatever frame it finds there.                    *)
(*                                                                         *)
(* Outside are the hosts of the local network, one of them the gateway,    *)
(* and hosts behind it.  What they answer may come at any time, any number *)
(* of times, in any order, or never.  Segments of TCP and frames that      *)
(* net_poll does not know are one frame Other: module Tcp has the former.  *)
(***************************************************************************)
EXTENDS Nic, FiniteSets

CONSTANTS
    Up,             \* the addresses of hosts that are up
    Down,           \* addresses without a host
    OnLink,         \* the addresses under NET_NETMASK; others are behind the gateway
    GATEWAY,        \* NET_GATEWAY_IP
    NoHost,         \* 0 as an address, and a MAC that is not known
    SHORT, LONG,    \* lengths of records: of ARP frames, of all others
    ARP_POLLS,      \* iterations of net_arp_resolve (200000)
    PING_POLLS,     \* iterations of net_ping (300000)
    YIELD_EVERY,    \* iterations from one proc_yield to the next (1000)
    MAX_PINGS       \* bound: pings that are started

ASSUME NetConstants ==
    /\ GATEWAY \in Up \cap OnLink
    /\ OnLink \subseteq Up \cup Down
    /\ {ARP_POLLS, PING_POLLS, YIELD_EVERY, SHORT, LONG} \subseteq Nat \ {0}
    /\ NoHost \notin Up \cup Down

SEQ_MOD == 65536

Targets == Up \cup Down
Local == Up \cap OnLink             \* the hosts that ARP can find

VARIABLES
    arp_wait_target_ip, arp_wait_resolved, arp_wait_mac, gateway_mac,
    ping_waiting, ping_wait_seq, ping_reply_ok,
    ping,       \* the command ping: phase, target, MAC, iterations of its loop
    poller,     \* who is inside net_poll
    frame,      \* the static frame of net_poll
    answer,     \* what the handler of the frame has sent
    wire        \* the requests that have been sent

arpVars == <<arp_wait_target_ip, arp_wait_resolved, arp_wait_mac, gateway_mac>>
waitVars == <<ping_waiting, ping_wait_seq, ping_reply_ok>>
vars == <<nicVars, arpVars, waitVars, ping, poller, frame, answer, wire>>

(* A MAC is written as the local host that has it.                         *)
ArpRequest(h) == [kind |-> "who_has", from |-> h]
ArpReply(h)   == [kind |-> "is_at", from |-> h]
EchoRequest(h) == [kind |-> "echo", from |-> h]
EchoReply(h, n) == [kind |-> "reply", from |-> h, seq |-> n]
Other == [kind |-> "other"]

Frames ==
    [kind : {"who_has", "is_at", "echo"}, from : Local]
    \cup [kind : {"reply"}, from : Up, seq : 1 .. MAX_PINGS]
    \cup {Other}
LengthOf(f) == IF f.kind \in {"who_has", "is_at"} THEN SHORT ELSE LONG

ASSUME FramesAreFrames == NoFrame \notin Frames
ASSUME NumbersDoNotRepeat == MAX_PINGS \in 1 .. SEQ_MOD - 1

Answers == [kind : {"is_at", "reply"}, to : Local]
Requests == [kind : {"who_has"}, to : Targets]
            \cup [kind : {"echo"}, to : Targets, mac : Local \cup {NoHost}, seq : 0 .. SEQ_MOD - 1]

NotPinging == [phase |-> "idle", target |-> NoHost, mac |-> NoHost, polls |-> 0]

TypeOK ==
    /\ write_at \in 0 .. RX_SIZE - 1
    /\ rx_offset \in 0 .. RX_SIZE - 1
    /\ capr \in 0 .. CAPR_MOD - 1
    /\ rok \in BOOLEAN
    /\ \A i \in DOMAIN records : records[i].frame \in Frames
    /\ arp_wait_target_ip \in Targets \cup {NoHost}
    /\ arp_wait_resolved \in BOOLEAN
    /\ {arp_wait_mac, gateway_mac} \subseteq Local \cup {NoHost}
    /\ ping_waiting \in BOOLEAN
    /\ ping_wait_seq \in 0 .. SEQ_MOD - 1
    /\ ping_reply_ok \in BOOLEAN
    /\ ping \in [phase : {"idle", "arp", "echo", "answered", "silent"},
                 target : Targets \cup {NoHost}, mac : Local \cup {NoHost}, polls : Nat]
    /\ poller \in {"nobody", "shell", "server"}
    /\ frame \in Frames \cup {NoFrame}
    /\ answer \in Answers \cup {NoFrame}
    /\ wire \subseteq Requests

Init ==
    /\ NicInit
    /\ arp_wait_target_ip = NoHost /\ arp_wait_resolved = FALSE
    /\ arp_wait_mac = NoHost /\ gateway_mac = NoHost
    /\ ping_waiting = FALSE /\ ping_wait_seq = 0 /\ ping_reply_ok = FALSE
    /\ ping = NotPinging
    /\ poller = "nobody"
    /\ frame = NoFrame
    /\ answer = NoFrame
    /\ wire = {}

-----------------------------------------------------------------------------
(* The world: an ARP request, an echo request or another frame at any      *)
(* time, an answer once it was asked for.  An echo request reaches its     *)
(* target when it went to the MAC of the target or of the gateway to it.   *)

Via(t) == IF t \in OnLink THEN t ELSE GATEWAY
Reached(m) == m.mac = Via(m.to) /\ m.to \in Up

Coming ==
    {ArpRequest(GATEWAY), EchoRequest(GATEWAY), Other}
    \cup {ArpReply(m.to) : m \in {m \in wire : m.kind = "who_has" /\ m.to \in Local}}
    \cup {EchoReply(m.to, m.seq) : m \in {m \in wire : m.kind = "echo" /\ Reached(m)}}

Arrive(f) ==
    /\ f \in Coming
    /\ Store(f, LengthOf(f))
    /\ UNCHANGED <<arpVars, waitVars, ping, poller, frame, answer, wire>>

-----------------------------------------------------------------------------
(* net_poll: one frame is read, then handled; then its caller goes on.     *)

(* Another process runs only while the shell waits for a key or yields in  *)
(* a loop, which it does after the iterations 0, YIELD_EVERY, ...          *)
ShellYields ==
    ping.phase = "idle" \/ (ping.polls > 0 /\ (ping.polls - 1) % YIELD_EVERY = 0)

Poll(who) ==
    /\ poller = "nobody"
    /\ poller' = who
    /\ \/ \E f \in Frames \cup {Junk} : PollRecv(f) /\ frame' = f
       \/ PollNothing /\ frame' = NoFrame
    /\ UNCHANGED <<arpVars, waitVars, ping, answer, wire>>

OfSought_Any(f) ==              \* mutant: any ARP reply ends the wait
    arp_wait_target_ip # NoHost
OfSought(f) ==
    arp_wait_target_ip # NoHost /\ f.from = arp_wait_target_ip

HandleArpReply(f) ==
    /\ f.kind = "is_at"
    /\ IF OfSought(f)
       THEN arp_wait_mac' = f.from /\ arp_wait_resolved' = TRUE
       ELSE UNCHANGED <<arp_wait_mac, arp_wait_resolved>>
    /\ gateway_mac' = IF f.from = GATEWAY THEN f.from ELSE gateway_mac
    /\ UNCHANGED <<arp_wait_target_ip, waitVars, answer>>

(* send_arp(2, ...) and send_icmp_echo_reply.                              *)
ArpAnswer(f)  == [kind |-> "is_at", to |-> f.from]
EchoAnswer(f) == [kind |-> "reply", to |-> f.from]

HandleRequest(f) ==
    /\ \/ f.kind = "who_has" /\ answer' = ArpAnswer(f)
       \/ f.kind = "echo" /\ answer' = EchoAnswer(f)
    /\ UNCHANGED <<arpVars, waitVars>>

ForThisPing(f) == ping_waiting /\ f.seq = ping_wait_seq

HandleEchoReply(f) ==
    /\ f.kind = "reply"
    /\ ping_reply_ok' = (ping_reply_ok \/ ForThisPing(f))
    /\ UNCHANGED <<arpVars, ping_waiting, ping_wait_seq, answer>>

HandleOther(f) == f.kind = "other" /\ UNCHANGED <<arpVars, waitVars, answer>>

Handle ==
    /\ frame # NoFrame
    /\ \/ HandleRequest(frame) \/ HandleArpReply(frame)
       \/ HandleEchoReply(frame) \/ HandleOther(frame)
    /\ frame' = NoFrame
    /\ UNCHANGED <<nicVars, ping, poller, wire>>

PollDone(who) ==
    /\ poller = who
    /\ frame = NoFrame
    /\ poller' = "nobody"
    /\ answer' = NoFrame

(* A poll of the server that finds nothing changes nothing.                *)
ServerPolls == rok /\ ShellYields /\ Poll("server")
ServerReturns ==
    PollDone("server") /\ UNCHANGED <<nicVars, arpVars, waitVars, ping, frame, wire>>

-----------------------------------------------------------------------------
(* net_ping, from cmd_ping.                                                *)

(* nic_send returns when the card has sent the frame.                      *)
NicSend(request) == wire' = wire \cup {request}

(* The echo request leaves, with a number that no earlier ping had.        *)
SendEcho_SameSeq(t, mac) ==     \* mutant: ping_wait_seq is not incremented
    /\ ping_wait_seq' = 1
    /\ ping_reply_ok' = FALSE
    /\ ping_waiting' = TRUE
    /\ NicSend([kind |-> "echo", to |-> t, mac |-> mac, seq |-> ping_wait_seq'])
    /\ ping' = [phase |-> "echo", target |-> t, mac |-> mac, polls |-> 0]
SendEcho(t, mac) ==
    /\ ping_wait_seq' = (ping_wait_seq + 1) % SEQ_MOD
    /\ ping_reply_ok' = FALSE
    /\ ping_waiting' = TRUE
    /\ NicSend([kind |-> "echo", to |-> t, mac |-> mac, seq |-> ping_wait_seq'])
    /\ ping' = [phase |-> "echo", target |-> t, mac |-> mac, polls |-> 0]

(* net_ping returns true ("answered") or false, and cmd_ping says so.      *)
Return(outcome) == ping' = [ping EXCEPT !.phase = outcome, !.mac = NoHost, !.polls = 0]

Prompt ==
    /\ poller = "nobody"
    /\ ping.phase \in {"answered", "silent"}
    /\ ping' = NotPinging
    /\ UNCHANGED <<nicVars, arpVars, waitVars, poller, frame, answer, wire>>

StartPing(t) ==
    /\ poller = "nobody"
    /\ ping.phase = "idle"
    /\ ping_wait_seq < MAX_PINGS
    /\ IF Via(t) = GATEWAY /\ gateway_mac # NoHost
       THEN /\ SendEcho(t, gateway_mac)
            /\ UNCHANGED <<arp_wait_target_ip, arp_wait_resolved>>
       ELSE /\ arp_wait_target_ip' = Via(t)
            /\ arp_wait_resolved' = FALSE
            /\ NicSend([kind |-> "who_has", to |-> Via(t)])
            /\ ping' = [phase |-> "arp", target |-> t, mac |-> NoHost, polls |-> 0]
            /\ UNCHANGED waitVars
    /\ UNCHANGED <<nicVars, arp_wait_mac, gateway_mac, poller, frame, answer>>

ShellPolls == ping.phase \in {"arp", "echo"} /\ Poll("shell")

(* After net_poll in net_arp_resolve.                                      *)
Resolved ==
    /\ ping.phase = "arp" /\ PollDone("shell")
    /\ arp_wait_resolved
    /\ arp_wait_target_ip' = NoHost
    /\ SendEcho(ping.target, arp_wait_mac)
    /\ UNCHANGED <<nicVars, arp_wait_resolved, arp_wait_mac, gateway_mac, frame>>

NotResolved ==
    /\ ping.phase = "arp" /\ PollDone("shell")
    /\ ~arp_wait_resolved
    /\ IF ping.polls + 1 < ARP_POLLS
       THEN /\ ping' = [ping EXCEPT !.polls = @ + 1]
            /\ UNCHANGED arp_wait_target_ip
       ELSE arp_wait_target_ip' = NoHost /\ Return("silent")
    /\ UNCHANGED <<nicVars, arp_wait_resolved, arp_wait_mac, gateway_mac, waitVars, frame, wire>>

(* After net_poll in net_ping.                                             *)
Answered ==
    /\ ping.phase = "echo" /\ PollDone("shell")
    /\ ping_reply_ok
    /\ ping_waiting' = FALSE
    /\ Return("answered")
    /\ UNCHANGED <<nicVars, arpVars, ping_wait_seq, ping_reply_ok, frame, wire>>

NotAnswered_NoBound ==          \* mutant: the loop ends only with a reply
    /\ ping.phase = "echo" /\ PollDone("shell")
    /\ ~ping_reply_ok
    /\ UNCHANGED <<nicVars, arpVars, waitVars, ping, frame, wire>>
NotAnswered ==
    /\ ping.phase = "echo" /\ PollDone("shell")
    /\ ~ping_reply_ok
    /\ IF ping.polls + 1 < PING_POLLS
       THEN ping' = [ping EXCEPT !.polls = @ + 1] /\ UNCHANGED ping_waiting
       ELSE ping_waiting' = FALSE /\ Return("silent")
    /\ UNCHANGED <<nicVars, arpVars, ping_wait_seq, ping_reply_ok, frame, wire>>

-----------------------------------------------------------------------------
Shell == Prompt \/ ShellPolls \/ Resolved \/ NotResolved \/ Answered \/ NotAnswered

Next ==
    \/ \E f \in Coming : Arrive(f)
    \/ Handle \/ ServerPolls \/ ServerReturns
    \/ \E t \in Targets : StartPing(t)
    \/ Shell

Spec == Init /\ [][Next]_vars

(* A call of net_poll returns, and the shell gets the CPU back from every  *)
(* proc_yield.                                                             *)
FairSpec ==
    /\ Spec
    /\ WF_vars(Handle) /\ WF_vars(ServerReturns)
    /\ SF_vars(ShellPolls)
    /\ WF_vars(Prompt \/ Resolved \/ NotResolved \/ Answered \/ NotAnswered)

-----------------------------------------------------------------------------
(* Properties.                                                             *)

(* "respuesta recibida" is said only of a host that is up, that this very  *)
(* ping reached and that has answered it: no reply to an earlier ping,     *)
(* late or doubled, and no ARP reply of another host counts for it.        *)
PingTellsTheTruth ==
    ping.phase = "answered" => \E m \in wire :
       /\ m.kind = "echo" /\ Reached(m)
       /\ m.to = ping.target /\ m.seq = ping_wait_seq

(* Pings go to the host they are for or to the gateway, whatever ARP       *)
(* replies have come meanwhile, and the cached MAC is the gateway's.       *)
EchoesGoTheRightWay ==
    /\ \A m \in wire : m.kind = "echo" => m.mac = Via(m.to)
    /\ gateway_mac \in {NoHost, GATEWAY}

(* The card and the driver agree where records begin: what net_poll        *)
(* handles are the frames the card kept, once, whole and in order.         *)
Queue == INSTANCE FrameQueue WITH queue <- [i \in DOMAIN records |-> records[i].frame]
ImplementsFrameQueue == Queue!Spec

(* Whatever comes or does not come, the shell gets its prompt back.        *)
PingEnds == ping.phase # "idle" ~> ping.phase = "idle"

(* "si hay un paquete esperando, lo copia a out_buf (...) Si no hay nada,  *)
(* devuelve 0" (rtl8139.h:12): net_poll finds nothing only when the card   *)
(* has nothing.                                                            *)
WaitingFrameIsReturned ==
    [][poller = "nobody" /\ poller' # "nobody" /\ frame' = NoFrame => records = <<>>]_vars
==============================================================================
