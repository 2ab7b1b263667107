----------------------------- MODULE TimeServers -----------------------------
(***************************************************************************)
(* The four time servers of task16_cs_models.  They bind the same UDP port *)
(* (8080), so one of them runs at a time: "running" says which.  Their     *)
(* clients are the same (TimeNet), and they keep one promise, TimeService. *)
(***************************************************************************)
EXTENDS ThreadPerRequest, SlotPool, PillPool, Multiplexed

CONSTANT Servers    \* which of the servers may be started

ASSUME ServersAssumption == Servers \subseteq {"tpr", "slots", "pills", "mux"}

VARIABLE running

vars == <<running, net, tprVars, slotVars, pillVars, muxVars>>

Init ==
    /\ running \in Servers
    /\ NetInit /\ TprInit /\ SlotInit /\ PillInit /\ MuxInit

Others(server) ==
    /\ UNCHANGED running
    /\ server # "tpr"   => UNCHANGED tprVars
    /\ server # "slots" => UNCHANGED slotVars
    /\ server # "pills" => UNCHANGED pillVars
    /\ server # "mux"   => UNCHANGED muxVars

Runs(server) == running = server /\ Others(server)

UdpClient ==
    /\ \E d \in Clients \cup {Kill} : ClientSends(d) \/ SendsInVain(d)
    /\ Others("none")

ParallelStep    == Runs("tpr") /\ TprNext
BufferStep      == Runs("slots") /\ SlotNext
ConsumerStep    == Runs("pills") /\ PillNext
MultiplexedStep == Runs("mux") /\ MuxNext

Next ==
    UdpClient \/ ParallelStep \/ BufferStep \/ ConsumerStep \/ MultiplexedStep

Spec == Init /\ [][Next]_vars

TypeOK ==
    /\ running \in Servers
    /\ NetTypeOK /\ TprTypeOK /\ SlotTypeOK /\ PillTypeOK /\ MuxTypeOK

(***************************************************************************)
(* Every thread of the server that runs is scheduled, and a TCP client     *)
(* that has connected goes on to send.  Nobody has to ask or to kill.      *)
(***************************************************************************)
Up(server, A) == status = "up" /\ Runs(server) /\ A

Fairness ==
    /\ WF_vars(Up("tpr", TprKilled \/ TprClose \/ TprReturn
                           \/ \E c \in Clients : TprReceive(c)))
    /\ \A c \in Clients : WF_vars(Up("tpr", HandlerSends(c)))
    /\ WF_vars(Up("slots", SlotMain))
    /\ \A s \in Slots :
          WF_vars(Up("slots", Poll(s) \/ Test(s) \/ SlotSend(s) \/ Clear(s)))
    /\ WF_vars(Up("pills", PillMain))
    /\ \A h \in Handlers :
          WF_vars(Up("pills", WorkerReceive(h) \/ WorkerSend(h) \/ PostPill(h)
                                \/ WorkerExits(h)))
    /\ WF_vars(Up("mux", MuxServer))
    /\ \A c \in Callers : WF_vars(Runs("mux") /\ TcpAsk(c))

FairSpec == Spec /\ Fairness

(* Each of the four servers does what TimeService promises, to the clients *)
(* of both sockets.                                                        *)
answersToAll ==
    [client \in Clients \cup TcpClients |->
        IF client \in Clients THEN answers[client]
        ELSE IF client \in tcpAnswered THEN 1 ELSE 0]

Promise == INSTANCE TimeService WITH
    Clients  <- Clients \cup TcpClients,
    accepted <- accepted \cup tcpAccepted,
    answers  <- answersToAll,
    up       <- status = "up"

ImplementsService == Promise!Spec

(* README:2 of task16_cs_models: "to learn the time from the server run    *)
(* ./client".  Who asks is answered, unless the datagram is lost, the      *)
(* server is told to stop, it has ended, or a sendto of it has failed: the *)
(* handler of producer_consumer then closes the socket, and may wait for   *)
(* ever to post its pills when the queue is full (server.c 139-145).       *)
Served ==
    \A client \in Clients :
        client \in sent ~>
            \/ client \in answered \cup lost
            \/ Kill \in sent \/ status # "up" \/ ~sockOpen

(* The server with the slots forgets no request before a kill: although it *)
(* has fewer slots than clients, a client received and not yet answered is *)
(* always in one slot whose thread has still to send (parallel_buff/       *)
(* server.c 57-68, 86-87, 101-121).                                        *)
SlotsKeepRequests == running = "slots" => NoneForgotten

(* The other three forget none either.  A client received and not yet      *)
(* answered has a thread of its own; or main is about to post its request, *)
(* or it is in the queue, or with a handler, until a sendto fails; or it   *)
(* is the one client the multiplexed server is about to answer (parallel/  *)
(* server.c 60-79, 99; producer_consumer/server.c 82-102, 117-147;         *)
(* multyplexed_fd/server.c 83-91).                                         *)
NobodyForgotten ==
    LET owed == accepted \ answered IN
    /\ running = "tpr" => owed = inFlight
    /\ running = "pills" /\ sockOpen => owed =
            {c \in Clients : \/ pillPc = "post" /\ posting = c
                             \/ \E i \in DOMAIN mq : mq[i] = c
                             \/ \E h \in Handlers : worker[h] = "send" /\ held[h] = c}
    /\ running = "mux" => owed = IF muxPc = "answer" THEN {peer} ELSE {}

(* recvfrom and accept of the multiplexed server never wait for what       *)
(* select saw and is gone (multyplexed_fd/server.c 83-109).                *)
NeverWaitsInVain == running = "mux" => SelectHolds

(* The two servers that drain their requests before they end normally have *)
(* answered every client they have received: the consumers because the     *)
(* pills come last in the queue and main sleeps, the multiplexed server    *)
(* because it serves one client at a time.  Once a sendto of the consumers *)
(* has failed this is not so: that handler sleeps too, and main may return *)
(* 0 first (producer_consumer/server.c 93-98, 128-146; multyplexed_fd/     *)
(* server.c 83-109).                                                       *)
DrainsBeforeExit ==
    running \in {"pills", "mux"} /\ Patient /\ sockOpen => GracefulStop
=============================================================================
