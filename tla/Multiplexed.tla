----------------------------- MODULE Multiplexed -----------------------------
(***************************************************************************)
(* task16_cs_models/multyplexed_fd: one thread serves a UDP socket and a   *)
(* TCP socket with select.  A TCP client connects, sends its request and   *)
(* waits for the answer; the server never closes an accepted descriptor.   *)
(***************************************************************************)
EXTENDS Naturals, Sequences, FiniteSets, TimeNet

CONSTANTS
    TcpClients, \* the clients of the TCP socket, client_tcp.c
    TcpKill,    \* one of them, run with the argument "kill"
    MaxFds      \* how many accepted descriptors the process may hold

ASSUME TcpAssumption ==
    /\ TcpClients \cap (Clients \cup {Kill}) = {} /\ TcpKill \notin TcpClients
    /\ MaxFds \in Nat

Callers == TcpClients \cup {TcpKill}

VARIABLES
    muxPc,      \* "select", "udp", "answer", "tcp", "recv", "send" or "end"
    ready,      \* the sockets select has found readable
    peer,       \* the client being served
    backlog,    \* the TCP clients connected and not yet accepted
    tcp,        \* tcp[c]: "out", "connected", "asked" or "answered"
    fds         \* the TCP clients whose descriptor the server holds

muxVars == <<muxPc, ready, peer, backlog, tcp, fds>>

MuxInit ==
    /\ muxPc = "select" /\ ready = {} /\ peer = Kill
    /\ backlog = <<>>
    /\ tcp = [c \in Callers |-> "out"]
    /\ fds = {}

MuxTypeOK ==
    /\ muxPc \in {"select", "udp", "answer", "tcp", "recv", "send", "end"}
    /\ ready \subseteq {"udp", "tcp"}
    /\ peer \in Clients \cup Callers \cup {Kill}
    /\ backlog \in Seq(Callers)
    /\ tcp \in [Callers -> {"out", "connected", "asked", "answered"}]
    /\ fds \subseteq Callers

(* The TCP client: connect, send, and later recv.                          *)
Connect(c) ==
    /\ tcp[c] = "out"
    /\ tcp' = [tcp EXCEPT ![c] = "connected"]
    /\ backlog' = Append(backlog, c)
    /\ UNCHANGED <<net, muxPc, ready, peer, fds>>

TcpAsk(c) ==
    /\ tcp[c] = "connected"
    /\ tcp' = [tcp EXCEPT ![c] = "asked"]
    /\ UNCHANGED <<net, muxPc, ready, peer, backlog, fds>>

(* Fault: max_fd is the smaller descriptor, the TCP socket is not watched. *)
Select_UdpOnly ==
    /\ muxPc = "select" /\ socket # {}
    /\ ready' = {"udp"} /\ muxPc' = "udp"
    /\ UNCHANGED <<net, peer, backlog, tcp, fds>>

(* select, which times out every half second when nothing is readable.     *)
Select ==
    /\ muxPc = "select"
    /\ socket # {} \/ backlog # <<>>
    /\ ready' = {r \in {"udp", "tcp"} :
                    IF r = "udp" THEN socket # {} ELSE backlog # <<>>}
    /\ muxPc' = IF socket # {} THEN "udp" ELSE "tcp"
    /\ UNCHANGED <<net, peer, backlog, tcp, fds>>

MuxReceive(d) ==
    /\ muxPc = "udp" /\ Take(d)
    /\ peer' = d
    /\ muxPc' = IF d = Kill THEN "end" ELSE "answer"
    /\ UNCHANGED <<ready, backlog, tcp, fds>>

MuxAnswer ==
    /\ muxPc = "answer"
    /\ Answer(peer)
    /\ muxPc' = IF "tcp" \in ready THEN "tcp" ELSE "select"
    /\ UNCHANGED <<ready, peer, backlog, tcp, fds>>

(* accept fails when the process holds too many descriptors: the server    *)
(* ends with EXIT_FAILURE.                                                 *)
MuxAcceptFails ==
    /\ muxPc = "tcp" /\ Cardinality(fds) = MaxFds
    /\ Stop("failed")
    /\ UNCHANGED muxVars

MuxAccept ==
    /\ muxPc = "tcp" /\ Cardinality(fds) < MaxFds
    /\ fds' = fds \cup {Head(backlog)}
    /\ backlog' = Tail(backlog)
    /\ peer' = Head(backlog)
    /\ muxPc' = "recv"
    /\ UNCHANGED <<net, ready, tcp>>

(* recv waits until this client has sent, whoever else is waiting.         *)
MuxRecv ==
    /\ muxPc = "recv" /\ tcp[peer] = "asked"
    /\ muxPc' = IF peer = TcpKill THEN "end" ELSE "send"
    /\ UNCHANGED <<net, ready, peer, backlog, tcp, fds>>

MuxSend ==
    /\ muxPc = "send"
    /\ tcp' = [tcp EXCEPT ![peer] = "answered"]
    /\ muxPc' = "select"
    /\ UNCHANGED <<net, ready, peer, backlog, fds>>

MuxSendFails ==
    /\ muxPc \in {"answer", "send"} /\ SendsFail
    /\ Stop("failed") /\ UNCHANGED muxVars

MuxEnd == muxPc = "end" /\ Stop("exited") /\ UNCHANGED muxVars

MuxServer ==
    \/ Select \/ MuxAnswer \/ MuxAcceptFails \/ MuxAccept
    \/ MuxRecv \/ MuxSend \/ MuxSendFails \/ MuxEnd
    \/ \E d \in Clients \cup {Kill} : MuxReceive(d)

MuxNext ==
    \/ status = "up" /\ MuxServer
    \/ \E c \in Callers : Connect(c) \/ TcpAsk(c)

-----------------------------------------------------------------------------
tcpAccepted == fds \cap TcpClients
tcpAnswered == {c \in TcpClients : tcp[c] = "answered"}

(* What select saw holds when it is used: a datagram is still there for    *)
(* recvfrom and a connection for accept, although a request of the other   *)
(* socket may be served in between (server.c 83-109).                      *)
SelectHolds ==
    /\ muxPc = "udp" => socket # {}
    /\ muxPc = "tcp" \/ (muxPc \in {"udp", "answer"} /\ "tcp" \in ready)
          => backlog # <<>>

(* Every TCP client is answered too, unless the server has ended or is     *)
(* told to (client_tcp.c 43-49).                                           *)
TcpServed ==
    \A c \in TcpClients :
        tcp[c] = "asked" ~>
            \/ tcp[c] = "answered"
            \/ tcp[TcpKill] # "out" \/ Kill \in sent \/ status # "up"
=============================================================================
