------------------------------- MODULE TimeNet -------------------------------
(***************************************************************************)
(* What the time servers of task16_cs_models share: the clients and the    *)
(* UDP socket of the server.  Each client process sends one datagram and   *)
(* waits for one answer; one more client may be run with the argument      *)
(* "kill".  UDP keeps no order, so the datagrams waiting are a set.        *)
(***************************************************************************)
EXTENDS Naturals

CONSTANTS
    Clients,    \* the client processes
    Kill,       \* the datagram of "./client kill"
    Patient,    \* whether the sleep(1) after a kill outlasts the handlers
    SendsFail   \* whether the sendto or send of a server may fail

ASSUME NetAssumption ==
    Kill \notin Clients /\ Patient \in BOOLEAN /\ SendsFail \in BOOLEAN

VARIABLES
    sent,       \* the datagrams that were ever sent
    socket,     \* those that wait at the server's socket
    accepted,   \* the clients whose datagram the server has received
    answers,    \* answers[c]: how many answers were sent to client c
    status      \* of the server: "up", "exited" (status 0) or "failed"

net == <<sent, socket, accepted, answers, status>>

NetInit ==
    /\ sent = {} /\ socket = {} /\ accepted = {}
    /\ answers = [c \in Clients |-> 0]
    /\ status = "up"

NetTypeOK ==
    /\ sent \subseteq Clients \cup {Kill}
    /\ socket \subseteq sent
    /\ accepted \subseteq Clients \cap sent
    /\ answers \in [Clients -> Nat]
    /\ status \in {"up", "exited", "failed"}

(* main of a client: sendto.  UDP may lose the datagram on its way.        *)
ClientSends(d) ==
    /\ d \in (Clients \cup {Kill}) \ sent
    /\ sent' = sent \cup {d}
    /\ socket' = socket \cup {d}
    /\ UNCHANGED <<accepted, answers, status>>

SendsInVain(d) ==
    /\ d \in (Clients \cup {Kill}) \ sent
    /\ sent' = sent \cup {d}
    /\ UNCHANGED <<socket, accepted, answers, status>>

(* recvfrom of the server.                                                 *)
Take(d) ==
    /\ d \in socket
    /\ socket' = socket \ {d}
    /\ accepted' = accepted \cup ({d} \cap Clients)
    /\ UNCHANGED <<sent, answers, status>>

(* sendto of the server.                                                   *)
Answer(c) ==
    /\ answers' = [answers EXCEPT ![c] = @ + 1]
    /\ UNCHANGED <<sent, socket, accepted, status>>

(* The server process ends, with all its threads.                          *)
Stop(how) ==
    /\ status' = how
    /\ UNCHANGED <<sent, socket, accepted, answers>>

answered == {c \in Clients : answers[c] > 0}
lost     == sent \ (socket \cup accepted)

-----------------------------------------------------------------------------
(* What every server owes its clients.                                     *)

(* Nobody is answered twice, nor without having asked: an answer goes to   *)
(* the client whose datagram was received, although the address crosses    *)
(* from main to a handler thread in shared memory or in a queue.           *)
AnswersOnce ==
    \A c \in Clients : answers[c] <= 1 /\ (answers[c] > 0 => c \in accepted)

(* A server that ends normally has answered every client it has received.  *)
GracefulStop == status = "exited" => accepted = answered
=============================================================================
