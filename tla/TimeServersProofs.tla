-------------------------- MODULE TimeServersProofs --------------------------
(***************************************************************************)
(* The four time servers, for any number of clients, slots and handlers:   *)
(* what each owes its clients, and that each does what TimeService says.   *)
(***************************************************************************)
EXTENDS TimeServers, SequenceTheorems, FiniteSetTheorems, TLAPS

Ending == slotPc \in {"kill", "sleep"}

(* The types of what HandOver speaks of, and why it lasts: is_ready is -1, *)
(* and a handler is gone, only once main has begun to end; until then main *)
(* looks at a slot that exists.                                            *)
HandOverInv ==
    /\ SlotTypeOK
    /\ HandOver
    /\ \A s \in Slots : isReady[s] = -1 \/ handler[s] = "gone" => Ending
    /\ ~Ending => scan \in Slots

(* Nothing has been handed over at the start.                              *)
LEMMA HandOverInit == Init => HandOverInv
<1> SUFFICES ASSUME Init PROVE HandOverInv
  OBVIOUS
<1>1. SlotInit
  BY DEF Init
<1>2. 1 \in Slots /\ Slots \subseteq Int
  BY SlotAssumption DEF Slots
<1>3. SlotTypeOK
  BY <1>1, <1>2, SlotAssumption DEF SlotInit, SlotTypeOK, Slots, NoClient
<1> QED
  BY <1>1, <1>2, <1>3 DEF SlotInit, HandOverInv, HandOver, Ending

(* A step that leaves the slots alone.                                     *)
LEMMA HandOverIdle ==
    ASSUME HandOverInv, UNCHANGED slotVars PROVE HandOverInv'
  BY DEF HandOverInv, HandOver, SlotTypeOK, Ending, slotVars

(* main of the server.                                                     *)
LEMMA HandOverMain == ASSUME HandOverInv, SlotMain PROVE HandOverInv'
<1>0. 1 \in Slots /\ 2 \in Slots /\ Last \in Nat /\ Slots = 1..Last
  BY SlotAssumption DEF Slots
<1>1. CASE Scan
  <2>1. scan \in Slots /\ slotPc = "scan"
    BY <1>1 DEF Scan, HandOverInv, Ending
  <2>2. CASE isReady[scan] = 0
    <3>1. handler[scan] = "poll"
      BY <2>1, <2>2 DEF HandOverInv, HandOver, SlotTypeOK, Ending
    <3> QED
      BY <1>0, <1>1, <2>1, <2>2, <3>1
      DEF Scan, HandOverInv, HandOver, SlotTypeOK, Ending
  <2>3. CASE isReady[scan] # 0
    <3>1. scan' \in Slots
      BY <1>0, <1>1, <2>1, <2>3 DEF Scan
    <3> QED
      BY <1>0, <1>1, <2>1, <2>3, <3>1
      DEF Scan, HandOverInv, HandOver, SlotTypeOK, Ending
  <2> QED
    BY <2>2, <2>3
<1>2. CASE SetAddress
  BY <1>0, <1>2 DEF SetAddress, HandOverInv, HandOver, SlotTypeOK, Ending
<1>3. CASE SetReady
  BY <1>0, <1>3 DEF SetReady, HandOverInv, HandOver, SlotTypeOK, Ending
<1>4. CASE SlotKilled
  BY <1>0, <1>4 DEF SlotKilled, HandOverInv, HandOver, SlotTypeOK, Ending
<1>5. CASE KillSlot
  BY <1>0, <1>5 DEF KillSlot, HandOverInv, HandOver, SlotTypeOK, Ending
<1>6. CASE KillDone
  BY <1>0, <1>6 DEF KillDone, HandOverInv, HandOver, SlotTypeOK, Ending
<1>7. CASE SlotExit
  BY <1>7, HandOverIdle DEF SlotExit
<1>8. ASSUME NEW c \in Clients, SlotReceive(c) PROVE HandOverInv'
  BY <1>0, <1>8 DEF SlotReceive, HandOverInv, HandOver, SlotTypeOK, Ending
<1> QED
  BY <1>1, <1>2, <1>3, <1>4, <1>5, <1>6, <1>7, <1>8 DEF SlotMain

(* The thread of slot s.                                                   *)
LEMMA HandOverHandler ==
    ASSUME HandOverInv, NEW s \in Slots, SlotHandler(s) PROVE HandOverInv'
<1>1. CASE Poll(s)
  BY <1>1 DEF Poll, HandlerAt, HandOverInv, HandOver, SlotTypeOK, Ending
<1>2. CASE Test(s)
  BY <1>2 DEF Test, HandlerAt, HandOverInv, HandOver, SlotTypeOK, Ending
<1>3. CASE SlotSend(s)
  BY <1>3 DEF SlotSend, HandlerAt, HandOverInv, HandOver, SlotTypeOK, Ending
<1>4. CASE SlotSendFails(s)
  BY <1>4, HandOverIdle DEF SlotSendFails
<1>5. CASE Clear(s)
  BY <1>5 DEF Clear, HandlerAt, HandOverInv, HandOver, SlotTypeOK, Ending
<1> QED
  BY <1>1, <1>2, <1>3, <1>4, <1>5 DEF SlotHandler

(* Whatever server runs, and whatever its clients do.                      *)
LEMMA HandOverStep == ASSUME HandOverInv, [Next]_vars PROVE HandOverInv'
<1>1. CASE UNCHANGED vars
  BY <1>1, HandOverIdle DEF vars
<1>2. CASE UdpClient
  BY <1>2, HandOverIdle DEF UdpClient, Others
<1>3. CASE ParallelStep
  BY <1>3, HandOverIdle DEF ParallelStep, Runs, Others
<1>4. CASE BufferStep
  BY <1>4, HandOverMain, HandOverHandler DEF BufferStep, SlotNext
<1>5. CASE ConsumerStep
  BY <1>5, HandOverIdle DEF ConsumerStep, Runs, Others
<1>6. CASE MultiplexedStep
  BY <1>6, HandOverIdle DEF MultiplexedStep, Runs, Others
<1> QED
  BY <1>1, <1>2, <1>3, <1>4, <1>5, <1>6 DEF Next

(* Main and a handler thread never use a slot at the same time, although   *)
(* only the unlocked is_ready tells them whose it is (parallel_buff/       *)
(* server.c 58-63, 86-87, 101-121).                                        *)
THEOREM HandOverAlways == Spec => []HandOver
<1>1. HandOverInv /\ [Next]_vars => HandOverInv'
  BY HandOverStep
<1>2. HandOverInv => HandOver
  BY DEF HandOverInv
<1> QED
  BY HandOverInit, <1>1, <1>2, PTL DEF Spec

-----------------------------------------------------------------------------
(* What the four servers have in common: a client is owed an answer from   *)
(* the moment its datagram is received, and is received once.              *)
Owed(c) == c \in accepted /\ answers[c] = 0

NetInv ==
    /\ running \in Servers
    /\ sent \subseteq Clients \cup {Kill} /\ socket \subseteq sent
    /\ accepted \subseteq Clients \cap sent /\ socket \cap accepted = {}
    /\ answers \in [Clients -> Nat]
    /\ AnswersOnce

(* A thread per request: each thread owes the answer to its client.        *)
TprInv ==
    /\ \A c \in inFlight : c \in Clients /\ Owed(c)
    /\ \A c \in Clients : Owed(c) => c \in inFlight

(* A slot whose thread has still to send the answer, also after a kill.    *)
Owes(s) == Pending(s) \/ handler[s] = "send"

(* Each such slot has a client of its own, and main has another one; the   *)
(* address is written before the slot is marked.                           *)
SlotInv ==
    /\ \A s \in Slots : Owes(s) => address[s] \in Clients /\ Owed(address[s])
    /\ \A s, t \in Slots : Owes(s) /\ Owes(t) /\ s # t => address[s] # address[t]
    /\ slotPc \in {"address", "ready"} =>
          /\ request \in Clients /\ Owed(request)
          /\ \A s \in Slots : Owes(s) => address[s] # request
    /\ slotPc = "ready" => address[free] = request
    /\ NoneForgotten

(* Where a client is between recvfrom and sendto: with main, in the queue  *)
(* or with a handler.  Each is in one place, and in no other.              *)
Sending(h) == worker[h] = "send"

PlacesInv ==
    /\ pillPc = "post" =>
          /\ Owed(posting)
          /\ \A i \in DOMAIN mq : mq[i] # posting
          /\ \A h \in Handlers : Sending(h) => held[h] # posting
    /\ \A i \in DOMAIN mq : mq[i] # Pill =>
          /\ Owed(mq[i])
          /\ \A j \in DOMAIN mq : mq[j] = mq[i] => j = i
          /\ \A h \in Handlers : Sending(h) => held[h] # mq[i]
    /\ \A h \in Handlers : Sending(h) =>
          /\ held[h] \in Clients /\ Owed(held[h])
          /\ \A k \in Handlers : Sending(k) /\ held[k] = held[h] => k = h

(* As long as no sendto has failed, no client is anywhere else, and no     *)
(* request is behind a pill, which are only posted to end the server.      *)
DrainInv ==
    /\ sockOpen => \A h \in Handlers : worker[h] # "pills"
    /\ sockOpen =>
          /\ pillPc # "pills" =>
                /\ \A h \in Handlers : worker[h] # "gone"
                /\ \A i \in DOMAIN mq : mq[i] # Pill
          /\ \A h \in Handlers : worker[h] = "gone" =>
                \A i \in DOMAIN mq : mq[i] = Pill
          /\ \A i, j \in DOMAIN mq : i < j /\ mq[i] = Pill => mq[j] = Pill
          /\ \A c \in accepted \ answered :
                \/ pillPc = "post" /\ posting = c
                \/ \E i \in DOMAIN mq : mq[i] = c
                \/ \E h \in Handlers : Sending(h) /\ held[h] = c

PillInv == PlacesInv /\ DrainInv

(* The multiplexed server owes at most one answer.  A TCP client is in the *)
(* backlog, or its descriptor is held, or neither before it connects.      *)
MuxInv ==
    /\ tcp \in [Callers -> {"out", "connected", "asked", "answered"}]
    /\ backlog \in Seq(Callers) /\ fds \subseteq Callers
    /\ IF muxPc = "answer" THEN peer \in Clients /\ accepted \ answered = {peer}
       ELSE accepted = answered
    /\ muxPc \in {"udp", "answer"} /\ "tcp" \in ready => backlog # <<>>
    /\ muxPc = "tcp" => backlog # <<>>
    /\ \A i \in DOMAIN backlog :
          /\ backlog[i] \notin fds /\ tcp[backlog[i]] # "out"
          /\ \A j \in DOMAIN backlog : backlog[j] = backlog[i] => j = i
    /\ \A c \in fds : tcp[c] # "out"
    /\ \A c \in Callers : tcp[c] = "answered" => c \in fds
    /\ muxPc \in {"recv", "send"} => peer \in fds /\ tcp[peer] # "answered"
    /\ muxPc = "send" => peer \in TcpClients

(* The datagram select saw is not taken by anybody else.                   *)
UdpHolds == muxPc = "udp" => socket # {}

(* The pills are counted as long as the socket is open: until then no      *)
(* handler posts any, nor main before it is told to stop.                  *)
CountInv ==
    /\ PillTypeOK
    /\ pillPc = "post" => posting \in Clients
    /\ sockOpen => \A h \in Handlers : worker[h] # "pills" /\ pillsLeft[h] = 0
    /\ sockOpen /\ pillPc # "pills" => pillsLeft[Main] = 0
    /\ EveryPillItsHandler

LEMMA NetStart == ASSUME Init PROVE NetInv
<1>1. /\ running \in Servers /\ sent = {} /\ socket = {} /\ accepted = {}
      /\ answers = [c \in Clients |-> 0]
  BY DEF Init, NetInit
<1>2. 0 <= 1 /\ ~(0 > 0)
  OBVIOUS
<1>3. \A c \in Clients : answers[c] = 0
  BY <1>1
<1>4. AnswersOnce
  BY <1>2, <1>3, Zenon DEF AnswersOnce
<1> QED
  BY <1>1, <1>4 DEF NetInv

LEMMA NetIdle ==
    ASSUME NetInv, UNCHANGED <<running, sent, socket, accepted, answers>>
    PROVE  NetInv'
  BY DEF NetInv, AnswersOnce

(* recvfrom: who is received was not received before.                      *)
LEMMA NetTakes ==
    ASSUME NetInv, NEW d, Take(d), UNCHANGED running
    PROVE  /\ NetInv' /\ UNCHANGED answers
           /\ d \in Clients => /\ d \notin accepted /\ answers[d] = 0
                               /\ accepted' = accepted \cup {d}
           /\ d \notin Clients => accepted' = accepted
<1>1. /\ UNCHANGED <<answers, sent>> /\ d \in socket /\ socket' = socket \ {d}
      /\ accepted' = accepted \cup ({d} \cap Clients)
  BY DEF Take
<1>2. AnswersOnce'
  BY <1>1 DEF NetInv, AnswersOnce
<1>3. ASSUME d \in Clients PROVE d \notin accepted /\ answers[d] = 0
  <2>1. d \notin accepted
    BY <1>1 DEF NetInv
  <2>2. ~(answers[d] > 0) /\ answers[d] \in Nat
    BY <1>3, <2>1 DEF NetInv, AnswersOnce
  <2> QED
    BY <2>1, <2>2
<1>4. NetInv'
  BY <1>1, <1>2 DEF NetInv
<1> QED
  BY <1>1, <1>3, <1>4

(* sendto, to a client that is owed an answer.                             *)
LEMMA NetAnswers ==
    ASSUME NetInv, NEW c \in Clients, Owed(c), Answer(c), UNCHANGED running
    PROVE  /\ NetInv' /\ UNCHANGED <<sent, socket, accepted, status>>
           /\ answers' = [answers EXCEPT ![c] = 1]
<1>1. /\ UNCHANGED <<sent, socket, accepted, status>> /\ answers[c] = 0
      /\ c \in accepted /\ answers \in [Clients -> Nat]
  BY DEF Answer, Owed, NetInv
<1>2. answers' = [answers EXCEPT ![c] = 1]
  BY <1>1 DEF Answer
<1>3. answers' \in [Clients -> Nat]
  BY <1>1, <1>2
<1>4. AnswersOnce'
  BY <1>1, <1>2 DEF NetInv, AnswersOnce
<1> QED
  BY <1>1, <1>2, <1>3, <1>4 DEF NetInv

LEMMA NetClient ==
    ASSUME NetInv, UdpClient
    PROVE  /\ NetInv' /\ UNCHANGED <<accepted, answers, status>>
           /\ socket \subseteq socket'
<1>1. PICK d \in Clients \cup {Kill} : ClientSends(d) \/ SendsInVain(d)
  BY DEF UdpClient
<1>2. /\ UNCHANGED <<running, accepted, answers, status>> /\ d \notin sent
      /\ sent' = sent \cup {d} /\ socket' \subseteq socket \cup {d}
      /\ socket \subseteq socket'
  BY <1>1 DEF UdpClient, Others, ClientSends, SendsInVain
<1>3. AnswersOnce'
  BY <1>2 DEF NetInv, AnswersOnce
<1> QED
  BY <1>2, <1>3 DEF NetInv

LEMMA OwedLasts ==
    ASSUME NEW c, Owed(c), accepted \subseteq accepted', answers'[c] = answers[c]
    PROVE  Owed(c)'
  BY DEF Owed

LEMMA OwedIsOpen == ASSUME NetInv PROVE accepted \ answered = {c \in Clients : Owed(c)}
  BY DEF NetInv, Owed, answered

-----------------------------------------------------------------------------
(* A thread per request.                                                   *)
LEMMA TprStep ==
    ASSUME NetInv, TprInv, TprNext, UNCHANGED running PROVE NetInv' /\ TprInv'
<1>1. ASSUME NEW c \in Clients, TprReceive(c) PROVE NetInv' /\ TprInv'
  <2>1. /\ NetInv' /\ UNCHANGED answers /\ answers[c] = 0
        /\ accepted' = accepted \cup {c} /\ inFlight' = inFlight \cup {c}
    BY <1>1, NetTakes DEF TprReceive
  <2> QED
    BY <2>1 DEF TprInv, Owed
<1>2. CASE TprKilled
  <2>1. NetInv' /\ UNCHANGED <<answers, inFlight, accepted>>
    BY <1>2, NetTakes, NetAssumption DEF TprKilled
  <2> QED
    BY <2>1 DEF TprInv, Owed
<1>3. ASSUME NEW c \in Clients, HandlerSends(c) PROVE NetInv' /\ TprInv'
  <2>1. /\ NetInv' /\ UNCHANGED accepted /\ inFlight' = inFlight \ {c}
        /\ answers' = [answers EXCEPT ![c] = 1]
    BY <1>3, NetAnswers DEF HandlerSends, TprInv
  <2>2. answers'[c] = 1 /\ \A e \in Clients \ {c} : answers'[e] = answers[e]
    BY <2>1 DEF NetInv
  <2> QED
    BY <2>1, <2>2 DEF TprInv, Owed
<1>4. CASE UNCHANGED <<sent, socket, accepted, answers, inFlight>>
  <2>1. NetInv'
    BY <1>4, NetIdle
  <2> QED
    BY <1>4, <2>1 DEF TprInv, Owed
<1>5. ASSUME TprClose \/ TprReturn \/ \E c \in Clients : HandlerFails(c)
      PROVE  UNCHANGED <<sent, socket, accepted, answers, inFlight>>
  BY <1>5 DEF TprClose, TprReturn, HandlerFails, Stop, net, tprVars
<1> QED
  BY <1>1, <1>2, <1>3, <1>4, <1>5 DEF TprNext

-----------------------------------------------------------------------------
(* A slot per thread.                                                      *)
LEMMA SlotIdle ==
    ASSUME NetInv, SlotInv, UNCHANGED <<accepted, answers, request, address>>,
           \A s \in Slots : Owes(s)' => Owes(s),
           slotPc' \in {"address", "ready"} => slotPc' = slotPc /\ UNCHANGED free,
           NoneForgotten'
    PROVE  SlotInv'
  BY DEF SlotInv, Owed

LEMMA SlotMainStep ==
    ASSUME NetInv, SlotInv, HandOverInv, SlotMain, UNCHANGED running
    PROVE  NetInv' /\ SlotInv'
<1> USE DEF Owes, Pending, HandOverInv, SlotTypeOK, Ending
<1>1. CASE Scan \/ KillSlot \/ KillDone
  <2>1. UNCHANGED <<net, request, address, handler>>
    BY <1>1 DEF Scan, KillSlot, KillDone
  <2>2. NetInv'
    BY <2>1, NetIdle DEF net
  <2>3. \A s \in Slots : isReady'[s] = isReady[s] \/ isReady'[s] = -1
    BY <1>1 DEF Scan, KillSlot, KillDone
  <2>4. /\ slotPc' \in {"scan", "recv", "kill", "sleep"}
        /\ slotPc' \notin {"kill", "sleep"} => slotPc = "scan" /\ UNCHANGED isReady
    BY <1>1 DEF Scan, KillSlot, KillDone
  <2>5. NoneForgotten'
    BY <2>1, <2>4 DEF SlotInv, NoneForgotten, answered, net
  <2>6. \A s \in Slots : Owes(s)' => Owes(s)
    BY <2>1, <2>3
  <2> HIDE DEF Owes
  <2> QED
    BY <2>1, <2>2, <2>4, <2>5, <2>6, SlotIdle DEF net
<1>2. CASE SlotExit
  <2>1. UNCHANGED <<sent, socket, accepted, answers, slotVars>>
    BY <1>2 DEF SlotExit, Stop
  <2>2. NetInv'
    BY <2>1, NetIdle
  <2>3. NoneForgotten'
    BY <2>1 DEF SlotInv, NoneForgotten, answered, slotVars
  <2> QED
    BY <2>1, <2>2, <2>3, SlotIdle DEF slotVars
<1>3. CASE SlotKilled
  <2>1. /\ NetInv' /\ UNCHANGED <<answers, request, address, isReady, handler>>
        /\ accepted' = accepted /\ slotPc' = "kill"
    BY <1>3, NetTakes, NetAssumption DEF SlotKilled
  <2>2. NoneForgotten'
    BY <2>1 DEF NoneForgotten
  <2> QED
    BY <2>1, <2>2, SlotIdle
<1>4. ASSUME NEW c \in Clients, SlotReceive(c) PROVE NetInv' /\ SlotInv'
  <2>1. /\ NetInv' /\ UNCHANGED <<answers, address, isReady, handler>>
        /\ c \notin accepted /\ answers[c] = 0 /\ accepted' = accepted \cup {c}
        /\ slotPc = "recv" /\ slotPc' = "address" /\ request' = c
    BY <1>4, NetTakes DEF SlotReceive
  <2>2. \A s \in Slots : Owes(s)' = Owes(s)
    BY <2>1
  <2>3. \A s \in Slots : Owes(s) => address[s] # c
    BY <2>1 DEF SlotInv, Owed
  <2>4. NoneForgotten'
    BY <2>1 DEF SlotInv, NoneForgotten, answered
  <2> QED
    BY <2>1, <2>2, <2>3, <2>4 DEF SlotInv, Owed
<1>5. CASE SetAddress
  <2>1. /\ UNCHANGED <<net, request, free, isReady, handler>>
        /\ address' = [address EXCEPT ![free] = request]
        /\ slotPc = "address" /\ slotPc' = "ready" /\ free \in Slots
    BY <1>5 DEF SetAddress
  <2>2. NetInv'
    BY <2>1, NetIdle DEF net
  <2>3. /\ isReady[free] = 0 /\ handler[free] = "poll" /\ ~Owes(free)
        /\ \A s \in Slots \ {free} : address'[s] = address[s]
        /\ address'[free] = request
    BY <2>1 DEF HandOver
  <2>4. \A s \in Slots : Owes(s)' => Owes(s) /\ s # free
    BY <2>1, <2>3
  <2>5. NoneForgotten'
    BY <2>1, <2>3 DEF SlotInv, NoneForgotten, answered, net
  <2> HIDE DEF Owes
  <2> QED
    BY <2>1, <2>2, <2>3, <2>4, <2>5 DEF SlotInv, Owed, net
<1>6. CASE SetReady
  <2>1. /\ UNCHANGED <<net, request, address, handler>>
        /\ isReady' = [isReady EXCEPT ![free] = 1]
        /\ slotPc = "ready" /\ slotPc' = "scan" /\ free \in Slots
    BY <1>6 DEF SetReady
  <2>2. NetInv'
    BY <2>1, NetIdle DEF net
  <2>3. /\ isReady'[free] = 1 /\ handler[free] = "poll" /\ address[free] = request
        /\ \A s \in Slots \ {free} : isReady'[s] = isReady[s]
    BY <2>1 DEF HandOver, SlotInv
  <2>4. \A s \in Slots : Owes(s)' => Owes(s) \/ s = free
    BY <2>1, <2>3
  <2>5. NoneForgotten'
    <3> SUFFICES ASSUME NEW c \in accepted \ answered
                 PROVE  \E s \in Slots : Pending(s)' /\ address[s] = c
      BY <2>1 DEF NoneForgotten, answered, net
    <3>1. CASE request = c
      BY <2>1, <2>3, <3>1
    <3>2. ASSUME NEW s \in Slots, Pending(s), address[s] = c
          PROVE  Pending(s)' /\ address[s] = c
      BY <2>1, <2>3, <3>2
    <3> QED
      BY <2>1, <3>1, <3>2 DEF SlotInv, NoneForgotten
  <2> HIDE DEF Owes
  <2>6. \A s \in Slots : Owes(s)' => address[s] \in Clients /\ Owed(address[s])
    BY <2>1, <2>3, <2>4 DEF SlotInv
  <2>7. \A s, t \in Slots : Owes(s)' /\ Owes(t)' /\ s # t => address[s] # address[t]
    BY <2>1, <2>3, <2>4 DEF SlotInv
  <2> QED
    BY <2>1, <2>2, <2>5, <2>6, <2>7 DEF SlotInv, Owed, net
<1> QED
  BY <1>1, <1>2, <1>3, <1>4, <1>5, <1>6 DEF SlotMain

LEMMA SlotHandlerStep ==
    ASSUME NetInv, SlotInv, HandOverInv, NEW s \in Slots, SlotHandler(s),
           UNCHANGED running
    PROVE  NetInv' /\ SlotInv'
<1> USE DEF Owes, Pending, HandOverInv, SlotTypeOK, Ending
<1>1. CASE Poll(s) \/ Test(s) \/ Clear(s)
  <2>1. /\ UNCHANGED <<net, slotPc, free, request, address>>
        /\ \A t \in Slots \ {s} : isReady'[t] = isReady[t] /\ handler'[t] = handler[t]
    BY <1>1 DEF Poll, Test, Clear, HandlerAt
  <2>2. NetInv'
    BY <2>1, NetIdle DEF net
  <2>3. /\ Owes(s)' => Owes(s)
        /\ Pending(s) /\ ~Ending => Pending(s)'
    <3>1. CASE Poll(s)
      BY <3>1 DEF Poll, HandlerAt
    <3>2. CASE Test(s)
      BY <3>2 DEF Test, HandlerAt, HandOver
    <3>3. CASE Clear(s)
      BY <3>3 DEF Clear, HandlerAt
    <3> QED
      BY <1>1, <3>1, <3>2, <3>3
  <2>4. \A t \in Slots : /\ Owes(t)' => Owes(t)
                         /\ Pending(t) /\ ~Ending => Pending(t)'
    BY <2>1, <2>3
  <2> HIDE DEF Owes, Pending
  <2>5. NoneForgotten'
    BY <2>1, <2>4 DEF SlotInv, NoneForgotten, answered, net
  <2> QED
    BY <2>1, <2>2, <2>4, <2>5, SlotIdle DEF net
<1>2. CASE SlotSendFails(s)
  <2>1. UNCHANGED <<sent, socket, accepted, answers, slotVars>>
    BY <1>2 DEF SlotSendFails, Stop
  <2>2. NetInv'
    BY <2>1, NetIdle
  <2>3. NoneForgotten'
    BY <2>1 DEF SlotInv, NoneForgotten, answered, slotVars
  <2> QED
    BY <2>1, <2>2, <2>3, SlotIdle DEF slotVars
<1>3. CASE SlotSend(s)
  <2> DEFINE c == address[s]
  <2>1. /\ Answer(c) /\ handler[s] = "send"
        /\ UNCHANGED <<slotPc, free, request, address, isReady>>
        /\ handler'[s] = "clear" /\ \A t \in Slots \ {s} : handler'[t] = handler[t]
    BY <1>3 DEF SlotSend, HandlerAt
  <2>2. Owes(s) /\ c \in Clients /\ Owed(c)
    BY <2>1 DEF SlotInv
  <2>3. ~Owes(s)' /\ \A t \in Slots : Owes(t)' => Owes(t) /\ t # s
    BY <2>1
  <2> HIDE DEF c
  <2>4. /\ NetInv' /\ UNCHANGED accepted /\ answers' = [answers EXCEPT ![c] = 1]
    BY <2>1, <2>2, NetAnswers
  <2>5. answers'[c] = 1 /\ \A e \in Clients \ {c} : answers'[e] = answers[e]
    BY <2>2, <2>4 DEF NetInv
  <2>6. \A t \in Slots \ {s} : Owes(t) => address[t] # c
    BY <2>2 DEF SlotInv, c
  <2>7. slotPc \in {"address", "ready"} => request # c
    BY <2>2 DEF SlotInv, c
  <2>8. NoneForgotten'
    <3> SUFFICES ASSUME slotPc \notin {"kill", "sleep"}, NEW e \in accepted \ answered,
                        e # c
                 PROVE  \/ slotPc \in {"address", "ready"} /\ request = e
                        \/ \E t \in Slots : Pending(t)' /\ address[t] = e
      BY <2>1, <2>2, <2>4, <2>5 DEF NoneForgotten, answered, NetInv
    <3>1. ASSUME NEW t \in Slots, Pending(t), address[t] = e PROVE Pending(t)'
      BY <2>1, <3>1 DEF c
    <3> QED
      BY <3>1 DEF SlotInv, NoneForgotten
  <2> HIDE DEF Owes
  <2>9. \A t \in Slots : Owes(t)' => address[t] \in Clients /\ Owed(address[t])'
    BY <2>1, <2>3, <2>4, <2>5, <2>6 DEF SlotInv, Owed
  <2>10. slotPc \in {"address", "ready"} =>
           /\ request \in Clients /\ Owed(request)'
           /\ \A t \in Slots : Owes(t)' => address[t] # request
    BY <2>1, <2>3, <2>4, <2>5, <2>7 DEF SlotInv, Owed
  <2>11. \A t, u \in Slots : Owes(t)' /\ Owes(u)' /\ t # u => address[t] # address[u]
    BY <2>3 DEF SlotInv
  <2> QED
    BY <2>1, <2>4, <2>8, <2>9, <2>10, <2>11 DEF SlotInv
<1> QED
  BY <1>1, <1>2, <1>3 DEF SlotHandler

-----------------------------------------------------------------------------
(* The queue of the producer and the consumers.                            *)
LEMMA Appended ==
    ASSUME NEW S, NEW s \in Seq(S), NEW e \in S, NEW n, n = Len(s) + 1
    PROVE  LET t == Append(s, e) IN
           /\ t \in Seq(S) /\ n \in DOMAIN t /\ n \notin DOMAIN s /\ t[n] = e
           /\ DOMAIN t = DOMAIN s \cup {n}
           /\ \A i \in DOMAIN s : i < n /\ t[i] = s[i]
<1> DEFINE t == Append(s, e)
<1>1. /\ t \in Seq(S) /\ Len(t) = Len(s) + 1 /\ t[n] = e
      /\ \A i \in 1..Len(s) : t[i] = s[i]
      /\ Len(s) \in Nat /\ DOMAIN s = 1..Len(s)
  BY AppendProperties, LenProperties
<1> HIDE DEF t
<1>2. DOMAIN t = 1..Len(t)
  BY <1>1, LenProperties
<1>3. DOMAIN t = DOMAIN s \cup {n} /\ n \in DOMAIN t /\ n \notin DOMAIN s
  BY <1>1, <1>2
<1>4. \A i \in DOMAIN s : i < n
  BY <1>1
<1> USE DEF t
<1> QED
  BY <1>1, <1>3, <1>4

LEMMA TakenOff ==
    ASSUME NEW S, NEW s \in Seq(S), s # <<>>
    PROVE  LET t == Tail(s) IN
           /\ t \in Seq(S) /\ 1 \in DOMAIN s /\ s[1] = Head(s) /\ Head(s) \in S
           /\ \A i \in DOMAIN t : i + 1 \in DOMAIN s /\ i + 1 # 1 /\ t[i] = s[i + 1]
           /\ \A i, j \in DOMAIN t : i < j => i + 1 < j + 1
           /\ \A i, j \in DOMAIN t : i + 1 = j + 1 => i = j
           /\ \A i \in DOMAIN s \ {1} :
                 /\ 1 < i /\ i - 1 \in DOMAIN t /\ t[i - 1] = s[i]
                 /\ (i - 1) + 1 = i
<1> DEFINE t == Tail(s)
<1>1. /\ t \in Seq(S) /\ Len(t) = Len(s) - 1 /\ Head(s) \in S
      /\ \A i \in 1..Len(t) : t[i] = s[i + 1]
      /\ Len(s) \in Nat \ {0} /\ DOMAIN s = 1..Len(s)
  BY HeadTailProperties, LenProperties, EmptySeq
<1> HIDE DEF t
<1>2. DOMAIN t = 1..Len(t)
  BY <1>1, LenProperties
<1>3. 1 \in DOMAIN s /\ s[1] = Head(s)
  BY <1>1
<1>4. \A i \in DOMAIN t : i + 1 \in DOMAIN s /\ i + 1 # 1 /\ t[i] = s[i + 1]
  BY <1>1, <1>2
<1>5. \A i, j \in DOMAIN t : (i < j => i + 1 < j + 1) /\ (i + 1 = j + 1 => i = j)
  BY <1>2
<1>6. \A i \in DOMAIN s \ {1} :
         /\ 1 < i /\ i - 1 \in DOMAIN t /\ (i - 1) + 1 = i
  BY <1>1, <1>2
<1>7. \A i \in DOMAIN s \ {1} : t[i - 1] = s[i]
  BY <1>4, <1>6
<1> USE DEF t
<1> QED
  BY <1>1, <1>3, <1>4, <1>5, <1>6, <1>7

(* The pills in a queue.                                                   *)
PillsIn(s) == {i \in DOMAIN s : s[i] = Pill}

LEMMA PillsFinite ==
    ASSUME NEW S, NEW s \in Seq(S)
    PROVE  IsFiniteSet(PillsIn(s)) /\ Cardinality(PillsIn(s)) \in Nat
<1>0. Len(s) \in Nat /\ DOMAIN s = 1..Len(s)
  BY LenProperties
<1>1. IsFiniteSet(1..Len(s)) /\ PillsIn(s) \in SUBSET (1..Len(s))
  <2>1. 1 \in Int /\ Len(s) \in Int
    BY <1>0
  <2>2. IsFiniteSet(1..Len(s))
    BY <2>1, FS_Interval
  <2> QED
    BY <1>0, <2>2 DEF PillsIn
<1>2. IsFiniteSet(PillsIn(s))
  BY <1>1, FS_Subset
<1> QED
  BY <1>2, FS_CardinalityType

LEMMA PillsAppended ==
    ASSUME NEW S, NEW s \in Seq(S), NEW e \in S
    PROVE  Cardinality(PillsIn(Append(s, e))) =
               Cardinality(PillsIn(s)) + IF e = Pill THEN 1 ELSE 0
<1> DEFINE n == Len(s) + 1
<1> DEFINE t == Append(s, e)
<1>1. /\ t[n] = e /\ DOMAIN t = DOMAIN s \cup {n} /\ n \notin DOMAIN s
      /\ \A i \in DOMAIN s : t[i] = s[i]
  BY Appended
<1> HIDE DEF n, t
<1>2. PillsIn(t) = IF e = Pill THEN PillsIn(s) \cup {n} ELSE PillsIn(s)
  BY <1>1 DEF PillsIn
<1>3. IsFiniteSet(PillsIn(s)) /\ n \notin PillsIn(s) /\ Cardinality(PillsIn(s)) \in Nat
  BY <1>1, PillsFinite DEF PillsIn
<1>4. Cardinality(PillsIn(s) \cup {n}) = Cardinality(PillsIn(s)) + 1
  BY <1>3, FS_AddElement
<1>5. Cardinality(PillsIn(t)) = Cardinality(PillsIn(s)) + IF e = Pill THEN 1 ELSE 0
  BY <1>2, <1>3, <1>4
<1> QED
  BY <1>5 DEF t

LEMMA PillsTaken ==
    ASSUME NEW S, NEW s \in Seq(S), s # <<>>
    PROVE  Cardinality(PillsIn(s)) =
               Cardinality(PillsIn(Tail(s))) + IF Head(s) = Pill THEN 1 ELSE 0
<1> DEFINE t == Tail(s)
<1>1. /\ t \in Seq(S) /\ 1 \in DOMAIN s /\ s[1] = Head(s)
      /\ \A i \in DOMAIN t : i + 1 \in DOMAIN s /\ i + 1 # 1 /\ t[i] = s[i + 1]
      /\ \A i, j \in DOMAIN t : i + 1 = j + 1 => i = j
      /\ \A i \in DOMAIN s \ {1} : i - 1 \in DOMAIN t /\ (i - 1) + 1 = i
  BY TakenOff
<1> HIDE DEF t
<1> DEFINE rest == PillsIn(s) \ {1}
<1> DEFINE f == [i \in PillsIn(t) |-> i + 1]
<1>2. /\ IsFiniteSet(PillsIn(s)) /\ IsFiniteSet(PillsIn(t))
      /\ Cardinality(PillsIn(s)) \in Nat /\ Cardinality(PillsIn(t)) \in Nat
  BY <1>1, PillsFinite
<1>3. Cardinality(PillsIn(t)) = Cardinality(rest)
  <2>1. f \in [PillsIn(t) -> rest]
    BY <1>1 DEF PillsIn
  <2>2. \A i, j \in PillsIn(t) : f[i] = f[j] => i = j
    BY <1>1 DEF PillsIn
  <2>3. \A k \in rest : \E i \in PillsIn(t) : f[i] = k
    <3>1. ASSUME NEW k \in rest PROVE k - 1 \in PillsIn(t) /\ (k - 1) + 1 = k
      BY <1>1 DEF PillsIn
    <3> QED
      BY <3>1
  <2>4. f \in Bijection(PillsIn(t), rest)
    <3> HIDE DEF f, rest
    <3> QED
      BY <2>1, <2>2, <2>3 DEF Bijection, Injection, Surjection, IsInjective
  <2> QED
    BY <1>2, <2>4, FS_Bijection DEF ExistsBijection
<1>4. CASE Head(s) = Pill
  <2>1. Cardinality(rest) = Cardinality(PillsIn(s)) - 1
    <3>1. 1 \in PillsIn(s)
      BY <1>1, <1>4 DEF PillsIn
    <3> QED
      BY <1>2, <3>1, FS_RemoveElement
  <2>2. Cardinality(PillsIn(s)) = Cardinality(PillsIn(t)) + 1
    BY <1>2, <1>3, <2>1
  <2> QED
    BY <1>4, <2>2 DEF t
<1>5. CASE Head(s) # Pill
  <2>1. rest = PillsIn(s)
    BY <1>1, <1>5 DEF PillsIn
  <2> HIDE DEF rest, f
  <2>2. Cardinality(PillsIn(s)) = Cardinality(PillsIn(t)) + 0
    BY <1>2, <1>3, <2>1
  <2>3. (IF Head(s) = Pill THEN 1 ELSE 0) = 0
    BY <1>5
  <2> QED
    BY <2>2, <2>3, Zenon DEF t
<1> QED
  BY <1>4, <1>5

(* The count of EveryPillItsHandler is kept by the queue, main and the     *)
(* handlers only, whatever the clients do.                                 *)
LEMMA CountStart == ASSUME PillInit PROVE CountInv
<1>1. PerKill \in Nat
  BY FS_CardinalityType, PillAssumption DEF PerKill
<1>2. PillTypeOK
  <2>1. mq \in Seq(Clients \cup {Pill})
    BY EmptySeq DEF PillInit
  <2>2. pillsLeft \in [Handlers \cup {Main} -> 0..PerKill]
    BY <1>1 DEF PillInit
  <2> QED
    BY <2>1, <2>2 DEF PillInit, PillTypeOK
<1>3. Gone = {} /\ Pills = {} /\ pillsLeft[Main] = 0
  BY DEF PillInit, Gone, Pills
<1>4. Cardinality(Gone) = 0 /\ Cardinality(Pills) = 0
  BY <1>3, FS_EmptySet
<1>5. EveryPillItsHandler
  BY <1>3, <1>4 DEF EveryPillItsHandler, PillInit
<1> QED
  BY <1>2, <1>5 DEF CountInv, PillInit

LEMMA CountIdle == ASSUME CountInv, UNCHANGED pillVars PROVE CountInv'
  BY DEF CountInv, PillTypeOK, EveryPillItsHandler, Gone, Pills, pillVars

LEMMA CountNumbers ==
    ASSUME CountInv
    PROVE  /\ PerKill \in Nat /\ IsFiniteSet(Gone) /\ IsFiniteSet(Pills)
           /\ Cardinality(Gone) \in Nat /\ Cardinality(Pills) \in Nat
           /\ Pills = PillsIn(mq) /\ pillsLeft[Main] \in 0..PerKill
<1>1. PerKill \in Nat
  BY FS_CardinalityType, PillAssumption DEF PerKill
<1>2. IsFiniteSet(Gone)
  BY FS_Subset, PillAssumption DEF Gone
<1>3. Pills = PillsIn(mq)
  BY DEF Pills, PillsIn
<1>4. mq \in Seq(Clients \cup {Pill}) /\ pillsLeft[Main] \in 0..PerKill
  BY DEF CountInv, PillTypeOK
<1> QED
  BY <1>1, <1>2, <1>3, <1>4, FS_CardinalityType, PillsFinite

(* The sum before and after a step, in numbers.                            *)
LEMMA PillPosted ==
    ASSUME NEW g \in Nat, NEW p \in Nat, NEW l \in Nat, l > 0
    PROVE  g + (p + 1) + (l - 1) = g + p + l
  OBVIOUS

LEMMA PillEaten ==
    ASSUME NEW g \in Nat, NEW p \in Nat, NEW q \in Nat, NEW l \in Nat, q = p + 1
    PROVE  (g + 1) + p + l = g + q + l
  OBVIOUS

LEMMA CountPosts ==
    ASSUME CountInv, NEW t \in Handlers \cup {Main}, PostPill(t)
    PROVE  CountInv'
<1>1. /\ mq' = Append(mq, Pill) /\ pillsLeft[t] > 0
      /\ pillsLeft' = [pillsLeft EXCEPT ![t] = @ - 1]
      /\ UNCHANGED <<pillPc, posting, sockOpen, worker, held>>
  BY DEF PostPill, Post
<1>2. /\ mq \in Seq(Clients \cup {Pill}) /\ pillsLeft[t] \in 0..PerKill
      /\ pillsLeft \in [Handlers \cup {Main} -> 0..PerKill]
  BY DEF CountInv, PillTypeOK
<1>3. mq' \in Seq(Clients \cup {Pill})
  BY <1>1, <1>2, AppendProperties
<1>4. pillsLeft[t] - 1 \in 0..PerKill
  BY <1>1, <1>2, CountNumbers
<1>5. PillTypeOK'
  BY <1>1, <1>2, <1>3, <1>4 DEF CountInv, PillTypeOK
<1>6. ASSUME sockOpen
      PROVE  /\ t = Main /\ pillPc = "pills"
             /\ EveryPillItsHandler'
  <2>1. t = Main /\ pillPc = "pills"
    BY <1>1, <1>6 DEF CountInv
  <2>2. pillsLeft'[Main] = pillsLeft[Main] - 1 /\ pillsLeft[Main] > 0
    BY <1>1, <1>2, <2>1
  <2>3. Cardinality(PillsIn(mq')) = Cardinality(PillsIn(mq)) + 1
    BY <1>1, <1>2, PillsAppended
  <2>4. Cardinality(Pills') = Cardinality(Pills) + 1 /\ Gone' = Gone
    BY <1>1, <2>3 DEF Pills, PillsIn, Gone
  <2>5. Cardinality(Gone) + Cardinality(Pills) + pillsLeft[Main] = PerKill
    BY <1>6, <2>1 DEF CountInv, EveryPillItsHandler
  <2>6. Cardinality(Gone') + Cardinality(Pills') + pillsLeft'[Main] = PerKill
    BY <2>2, <2>4, <2>5, CountNumbers
  <2> QED
    BY <1>1, <2>1, <2>6 DEF EveryPillItsHandler
<1>7. EveryPillItsHandler'
  BY <1>1, <1>6 DEF EveryPillItsHandler
<1>8. \A u \in (Handlers \cup {Main}) \ {t} : pillsLeft'[u] = pillsLeft[u]
  BY <1>1, <1>2
<1>9. sockOpen => t \notin Handlers
  BY <1>6, PillAssumption
<1> QED
  BY <1>1, <1>5, <1>6, <1>7, <1>8, <1>9 DEF CountInv

LEMMA CountStep == ASSUME CountInv, PillNext PROVE CountInv'
<1>1. ASSUME NEW c \in Clients, PillReceive(c) PROVE CountInv'
  <2>1. /\ pillPc = "recv" /\ pillPc' = "post" /\ posting' = c
        /\ UNCHANGED <<mq, pillsLeft, sockOpen, worker, held>>
    BY <1>1 DEF PillReceive
  <2> QED
    BY <2>1 DEF CountInv, PillTypeOK, EveryPillItsHandler, Gone, Pills
<1>2. CASE PostRequest
  <2>1. /\ pillPc = "post" /\ pillPc' = "recv" /\ mq' = Append(mq, posting)
        /\ UNCHANGED <<posting, pillsLeft, sockOpen, worker, held>>
    BY <1>2 DEF PostRequest, Post
  <2>2. posting \in Clients /\ posting # Pill /\ mq \in Seq(Clients \cup {Pill})
    BY <2>1, PillAssumption DEF CountInv, PillTypeOK
  <2>3. mq' \in Seq(Clients \cup {Pill})
    BY <2>1, <2>2, AppendProperties
  <2>4. Cardinality(PillsIn(mq')) = Cardinality(PillsIn(mq))
    BY <2>1, <2>2, PillsAppended, PillsFinite
  <2>5. Cardinality(Pills') = Cardinality(Pills) /\ Gone' = Gone
    BY <2>1, <2>4 DEF Pills, PillsIn, Gone
  <2>6. PillTypeOK'
    BY <2>1, <2>3 DEF CountInv, PillTypeOK
  <2>7. EveryPillItsHandler'
    BY <2>1, <2>5 DEF CountInv, EveryPillItsHandler
  <2> QED
    BY <2>1, <2>6, <2>7 DEF CountInv
<1>3. CASE PillKilled \/ PillReceiveFails
  <2>1. /\ pillPc = "recv" /\ pillPc' \in {"pills", "fail"}
        /\ pillPc' = "pills" \/ ~sockOpen
        /\ pillsLeft' = [pillsLeft EXCEPT ![Main] = PerKill]
        /\ UNCHANGED <<posting, mq, sockOpen, worker, held>>
    BY <1>3 DEF PillKilled, PillReceiveFails
  <2>2. PillTypeOK'
    <3>1. PerKill \in 0..PerKill
      BY CountNumbers
    <3> QED
      BY <2>1, <3>1 DEF CountInv, PillTypeOK
  <2>3. /\ pillsLeft'[Main] = PerKill
        /\ \A h \in Handlers : pillsLeft'[h] = pillsLeft[h]
    BY <2>1, PillAssumption DEF CountInv, PillTypeOK
  <2>4. EveryPillItsHandler'
    <3> SUFFICES ASSUME sockOpen
                 PROVE  Cardinality(Gone) + Cardinality(Pills) + PerKill = PerKill
      BY <2>1, <2>3 DEF EveryPillItsHandler, Gone, Pills
    <3>1. Cardinality(Gone) + Cardinality(Pills) + pillsLeft[Main] = 0
      BY <2>1 DEF CountInv, EveryPillItsHandler
    <3> QED
      BY <3>1, CountNumbers
  <2> QED
    BY <2>1, <2>2, <2>3, <2>4 DEF CountInv
<1>4. ASSUME NEW t \in Handlers \cup {Main}, PostPill(t) PROVE CountInv'
  BY <1>4, CountPosts
<1>5. ASSUME NEW h \in Handlers, WorkerReceive(h) PROVE CountInv'
  <2>1. /\ worker[h] = "recv" /\ mq # <<>> /\ mq' = Tail(mq)
        /\ held' = [held EXCEPT ![h] = Head(mq)]
        /\ worker' = [worker EXCEPT ![h] = IF Head(mq) = Pill THEN "gone" ELSE "send"]
        /\ UNCHANGED <<pillPc, posting, pillsLeft, sockOpen>>
    BY <1>5 DEF WorkerReceive
  <2>2. mq \in Seq(Clients \cup {Pill}) /\ Head(mq) \in Clients \cup {Pill}
        /\ mq' \in Seq(Clients \cup {Pill})
    BY <2>1, HeadTailProperties DEF CountInv, PillTypeOK
  <2>3. worker'[h] = (IF Head(mq) = Pill THEN "gone" ELSE "send")
        /\ \A k \in Handlers \ {h} : worker'[k] = worker[k]
    BY <2>1 DEF CountInv, PillTypeOK
  <2>4. PillTypeOK'
    BY <2>1, <2>2 DEF CountInv, PillTypeOK
  <2>5. Pills' = PillsIn(mq')
    BY DEF Pills, PillsIn
  <2>6. Cardinality(Gone') + Cardinality(Pills') + pillsLeft[Main] =
            Cardinality(Gone) + Cardinality(Pills) + pillsLeft[Main]
    <3>0. /\ mq' \in Seq(Clients \cup {Pill}) /\ Cardinality(PillsIn(mq')) \in Nat
          /\ Cardinality(Gone) \in Nat /\ pillsLeft[Main] \in Nat
      BY <2>2, PillsFinite, CountNumbers
    <3>1. CASE Head(mq) = Pill
      <4>1. Gone' = Gone \cup {h} /\ h \notin Gone
        BY <2>1, <2>3, <3>1 DEF Gone
      <4>2. Cardinality(Gone') = Cardinality(Gone) + 1
        BY <4>1, CountNumbers, FS_AddElement
      <4>3. Cardinality(PillsIn(mq)) = Cardinality(PillsIn(mq')) + 1
        BY <2>1, <2>2, <3>1, PillsTaken
      <4> QED
        BY <2>5, <3>0, <4>2, <4>3, CountNumbers, PillEaten
    <3>2. CASE Head(mq) # Pill
      <4>1. Gone' = Gone
        BY <2>1, <2>3, <3>2 DEF Gone
      <4>2. Cardinality(PillsIn(mq)) = Cardinality(PillsIn(mq'))
        BY <2>1, <2>2, <3>0, <3>2, PillsTaken
      <4> QED
        BY <2>5, <4>1, <4>2, CountNumbers
    <3> QED
      BY <3>1, <3>2
  <2>7. EveryPillItsHandler'
    BY <2>1, <2>6 DEF CountInv, EveryPillItsHandler
  <2> QED
    BY <2>1, <2>3, <2>4, <2>7 DEF CountInv
<1>6. ASSUME NEW h \in Handlers, WorkerSend(h) PROVE CountInv'
  <2>1. /\ worker[h] = "send" /\ worker' = [worker EXCEPT ![h] = "recv"]
        /\ UNCHANGED <<pillPc, posting, mq, pillsLeft, sockOpen, held>>
    BY <1>6 DEF WorkerSend
  <2>2. Gone' = Gone /\ Pills' = Pills
    BY <2>1 DEF CountInv, PillTypeOK, Gone, Pills
  <2>3. EveryPillItsHandler'
    BY <2>1, <2>2 DEF CountInv, EveryPillItsHandler
  <2> QED
    BY <2>1, <2>3 DEF CountInv, PillTypeOK
<1>7. ASSUME NEW h \in Handlers, WorkerSendFails(h) PROVE CountInv'
  <2>1. /\ ~sockOpen' /\ sockOpen' \in BOOLEAN
        /\ worker' = [worker EXCEPT ![h] = "pills"]
        /\ pillsLeft' = [pillsLeft EXCEPT ![h] = PerKill]
        /\ UNCHANGED <<pillPc, posting, mq, held>>
    BY <1>7 DEF WorkerSendFails
  <2>2. PerKill \in 0..PerKill
    BY CountNumbers
  <2>3. EveryPillItsHandler'
    BY <2>1 DEF EveryPillItsHandler
  <2> QED
    BY <2>1, <2>2, <2>3 DEF CountInv, PillTypeOK
<1>8. ASSUME \/ PillMainFails \/ \E how \in {"exited", "failed"} : PillExit(how)
             \/ \E h \in Handlers : WorkerExits(h)
      PROVE  CountInv'
  BY <1>8, CountIdle DEF PillMainFails, PillExit, WorkerExits
<1> QED
  BY <1>1, <1>2, <1>3, <1>4, <1>5, <1>6, <1>7, <1>8
  DEF PillNext, PillMain, Worker

(* A step that posts, takes and answers nothing.                           *)
LEMMA PlacesIdle ==
    ASSUME PlacesInv, accepted \subseteq accepted', UNCHANGED <<answers, mq, held>>,
           pillPc' = "post" => pillPc = "post" /\ UNCHANGED posting,
           \A h \in Handlers : Sending(h)' => Sending(h)
    PROVE  PlacesInv'
  BY DEF PlacesInv, Owed

LEMMA DrainIdle ==
    ASSUME DrainInv, UNCHANGED <<accepted, answers, mq, sockOpen, worker, held>>,
           pillPc = "post" => pillPc' = "post" /\ UNCHANGED posting,
           sockOpen /\ pillPc = "pills" => pillPc' = "pills"
    PROVE  DrainInv'
  BY DEF DrainInv, answered, Sending

LEMMA PillTakesStep ==
    ASSUME NetInv, CountInv, PillInv, NEW c \in Clients, PillReceive(c),
           UNCHANGED running
    PROVE  NetInv' /\ PillInv'
<1>1. /\ NetInv' /\ UNCHANGED answers /\ c \notin accepted /\ answers[c] = 0
      /\ accepted' = accepted \cup {c}
      /\ pillPc = "recv" /\ pillPc' = "post" /\ posting' = c
      /\ UNCHANGED <<mq, sockOpen, worker, held>>
  BY NetTakes DEF PillReceive
<1>2. PlacesInv'
  <2>1. /\ \A i \in DOMAIN mq : mq[i] # c
        /\ \A h \in Handlers : Sending(h) => held[h] # c
    BY <1>1, PillAssumption DEF PillInv, PlacesInv, Owed
  <2>2. \A e \in accepted : Owed(e) => Owed(e)'
    BY <1>1 DEF Owed
  <2>3. Owed(c)'
    BY <1>1 DEF Owed
  <2>4. \A h \in Handlers : Sending(h)' = Sending(h)
    BY <1>1 DEF Sending
  <2>5. \A e : Owed(e) => Owed(e)'
    BY <2>2 DEF Owed
  <2> HIDE DEF Owed
  <2> QED
    BY <1>1, <2>1, <2>3, <2>4, <2>5 DEF PillInv, PlacesInv
<1>3. DrainInv'
  BY <1>1 DEF PillInv, DrainInv, answered, Sending
<1> QED
  BY <1>1, <1>2, <1>3 DEF PillInv

LEMMA PillPostsStep ==
    ASSUME NetInv, CountInv, PillInv, PostRequest, UNCHANGED running
    PROVE  NetInv' /\ PillInv'
<1> DEFINE n == Len(mq) + 1
<1>1. /\ pillPc = "post" /\ pillPc' = "recv" /\ mq' = Append(mq, posting)
      /\ UNCHANGED <<net, posting, sockOpen, worker, held>>
  BY DEF PostRequest, Post
<1>2. posting \in Clients /\ posting # Pill /\ mq \in Seq(Clients \cup {Pill})
  BY <1>1, PillAssumption DEF CountInv, PillTypeOK
<1>3. /\ mq'[n] = posting /\ n \notin DOMAIN mq /\ DOMAIN mq' = DOMAIN mq \cup {n}
      /\ \A i \in DOMAIN mq : i < n /\ mq'[i] = mq[i]
  BY <1>1, <1>2, Appended
<1> HIDE DEF n
<1>4. NetInv'
  BY <1>1, NetIdle DEF net
<1>5. \A e : Owed(e)' = Owed(e)
  BY <1>1 DEF Owed, net
<1>6. \A h : Sending(h)' = Sending(h)
  BY <1>1 DEF Sending
<1>7. /\ Owed(posting) /\ \A i \in DOMAIN mq : mq[i] # posting
      /\ \A h \in Handlers : Sending(h) => held[h] # posting
  BY <1>1 DEF PillInv, PlacesInv
<1>8. PlacesInv'
  <2>1. ASSUME NEW i \in DOMAIN mq', mq'[i] # Pill
        PROVE  /\ Owed(mq'[i])
               /\ \A j \in DOMAIN mq' : mq'[j] = mq'[i] => j = i
               /\ \A h \in Handlers : Sending(h) => held[h] # mq'[i]
    <3>1. CASE i = n
      BY <1>3, <1>7, <3>1
    <3>2. CASE i \in DOMAIN mq
      <4>1. /\ mq'[i] = mq[i] /\ Owed(mq[i])
            /\ \A j \in DOMAIN mq : mq[j] = mq[i] => j = i
            /\ \A h \in Handlers : Sending(h) => held[h] # mq[i]
        BY <1>3, <2>1, <3>2 DEF PillInv, PlacesInv
      <4> QED
        BY <1>3, <1>7, <3>2, <4>1
    <3> QED
      BY <1>3, <2>1, <3>1, <3>2
  <2> QED
    BY <1>1, <1>5, <1>6, <2>1 DEF PillInv, PlacesInv
<1>9. DrainInv'
  <2>1. ASSUME sockOpen
        PROVE  /\ \A h \in Handlers : worker[h] # "gone"
               /\ \A i \in DOMAIN mq' : mq'[i] # Pill
    BY <1>1, <1>2, <1>3, <2>1 DEF PillInv, DrainInv
  <2>2. ASSUME sockOpen, NEW c \in accepted \ answered
        PROVE  \/ \E i \in DOMAIN mq' : mq'[i] = c
               \/ \E h \in Handlers : Sending(h) /\ held[h] = c
    BY <1>3, <2>2 DEF PillInv, DrainInv
  <2> QED
    BY <1>1, <1>6, <2>1, <2>2 DEF PillInv, DrainInv, answered, net
<1> QED
  BY <1>4, <1>8, <1>9 DEF PillInv

LEMMA PillPillsStep ==
    ASSUME NetInv, CountInv, PillInv, NEW t \in Handlers \cup {Main}, PostPill(t),
           UNCHANGED running
    PROVE  NetInv' /\ PillInv'
<1> DEFINE n == Len(mq) + 1
<1>1. /\ mq' = Append(mq, Pill) /\ pillsLeft[t] > 0
      /\ UNCHANGED <<net, pillPc, posting, sockOpen, worker, held>>
  BY DEF PostPill, Post
<1>2. mq \in Seq(Clients \cup {Pill})
  BY DEF CountInv, PillTypeOK
<1>3. /\ mq'[n] = Pill /\ n \notin DOMAIN mq /\ DOMAIN mq' = DOMAIN mq \cup {n}
      /\ \A i \in DOMAIN mq : i < n /\ mq'[i] = mq[i]
  BY <1>1, <1>2, Appended
<1>4. \A i \in DOMAIN mq : ~(n < i)
  BY <1>2, LenProperties
<1>5. ~(n < n)
  BY <1>2, LenProperties
<1> HIDE DEF n
<1>6. NetInv'
  BY <1>1, NetIdle DEF net
<1>7. \A e : Owed(e)' = Owed(e)
  BY <1>1 DEF Owed, net
<1>8. \A h : Sending(h)' = Sending(h)
  BY <1>1 DEF Sending
<1>9. PlacesInv'
  <2>1. pillPc = "post" => posting # Pill
    BY PillAssumption DEF CountInv
  <2>2. \A i \in DOMAIN mq' : mq'[i] # Pill => i \in DOMAIN mq /\ mq'[i] = mq[i]
    BY <1>3
  <2>3. pillPc = "post" => \A i \in DOMAIN mq' : mq'[i] # posting
    BY <2>1, <2>2 DEF PillInv, PlacesInv
  <2>4. ASSUME NEW i \in DOMAIN mq', mq'[i] # Pill
        PROVE  /\ Owed(mq'[i])
               /\ \A j \in DOMAIN mq' : mq'[j] = mq'[i] => j = i
               /\ \A h \in Handlers : Sending(h) => held[h] # mq'[i]
    <3>1. /\ i \in DOMAIN mq /\ mq'[i] = mq[i] /\ Owed(mq[i])
          /\ \A j \in DOMAIN mq : mq[j] = mq[i] => j = i
          /\ \A h \in Handlers : Sending(h) => held[h] # mq[i]
      BY <2>2, <2>4 DEF PillInv, PlacesInv
    <3> QED
      BY <2>2, <2>4, <3>1
  <2> QED
    BY <1>1, <1>7, <1>8, <2>3, <2>4 DEF PillInv, PlacesInv
<1>10. DrainInv'
  <2>1. sockOpen => pillPc = "pills"
    BY <1>1 DEF CountInv
  <2>2. ASSUME sockOpen
        PROVE  /\ \A h \in Handlers : worker[h] = "gone" =>
                     \A i \in DOMAIN mq' : mq'[i] = Pill
               /\ \A i, j \in DOMAIN mq' : i < j /\ mq'[i] = Pill => mq'[j] = Pill
    BY <1>3, <1>4, <1>5, <2>2 DEF PillInv, DrainInv
  <2>3. ASSUME sockOpen, NEW c \in accepted \ answered
        PROVE  \/ pillPc = "post" /\ posting = c
               \/ \E i \in DOMAIN mq' : mq'[i] = c
               \/ \E h \in Handlers : Sending(h) /\ held[h] = c
    BY <1>3, <2>3 DEF PillInv, DrainInv
  <2> QED
    BY <1>1, <1>8, <2>1, <2>2, <2>3 DEF PillInv, DrainInv, answered, net
<1> QED
  BY <1>6, <1>9, <1>10 DEF PillInv

LEMMA WorkerTakesStep ==
    ASSUME NetInv, CountInv, PillInv, NEW h \in Handlers, WorkerReceive(h),
           UNCHANGED running
    PROVE  NetInv' /\ PillInv'
<1> DEFINE m == Head(mq)
<1>1. /\ worker[h] = "recv" /\ mq # <<>> /\ mq' = Tail(mq)
      /\ held' = [held EXCEPT ![h] = m]
      /\ worker' = [worker EXCEPT ![h] = IF m = Pill THEN "gone" ELSE "send"]
      /\ UNCHANGED <<net, pillPc, posting, sockOpen>>
  BY DEF WorkerReceive
<1>2. /\ mq \in Seq(Clients \cup {Pill})
      /\ worker'[h] = (IF m = Pill THEN "gone" ELSE "send") /\ held'[h] = m
      /\ \A k \in Handlers \ {h} : worker'[k] = worker[k] /\ held'[k] = held[k]
  BY <1>1 DEF CountInv, PillTypeOK
<1>3. /\ 1 \in DOMAIN mq /\ mq[1] = m /\ m \in Clients \cup {Pill}
      /\ \A i \in DOMAIN mq' : i + 1 \in DOMAIN mq /\ i + 1 # 1 /\ mq'[i] = mq[i + 1]
      /\ \A i, j \in DOMAIN mq' : i < j => i + 1 < j + 1
      /\ \A i, j \in DOMAIN mq' : i + 1 = j + 1 => i = j
      /\ \A i \in DOMAIN mq \ {1} : 1 < i /\ i - 1 \in DOMAIN mq' /\ mq'[i - 1] = mq[i]
  BY <1>1, <1>2, TakenOff
<1> HIDE DEF m
<1>4. NetInv'
  BY <1>1, NetIdle DEF net
<1>5. \A e : Owed(e)' = Owed(e)
  BY <1>1 DEF Owed, net
<1>6. /\ ~Sending(h) /\ (Sending(h)' <=> m # Pill)
      /\ \A k \in Handlers \ {h} : Sending(k)' = Sending(k)
  BY <1>1, <1>2 DEF Sending
<1>7. m # Pill => /\ Owed(m) /\ \A i \in DOMAIN mq : mq[i] = m => i = 1
                  /\ \A k \in Handlers : Sending(k) => held[k] # m
                  /\ pillPc = "post" => posting # m
  BY <1>3 DEF PillInv, PlacesInv
<1>8. PlacesInv'
  <2>1. \A i \in DOMAIN mq' : mq'[i] # Pill =>
            /\ Owed(mq'[i])
            /\ \A j \in DOMAIN mq' : mq'[j] = mq'[i] => j = i
            /\ \A k \in Handlers : Sending(k) => held[k] # mq'[i]
            /\ mq'[i] # m
            /\ pillPc = "post" => mq'[i] # posting
    <3> SUFFICES ASSUME NEW i \in DOMAIN mq', mq'[i] # Pill
                 PROVE  /\ Owed(mq'[i])
                        /\ \A j \in DOMAIN mq' : mq'[j] = mq'[i] => j = i
                        /\ \A k \in Handlers : Sending(k) => held[k] # mq'[i]
                        /\ mq'[i] # m
                        /\ pillPc = "post" => mq'[i] # posting
      OBVIOUS
    <3>1. /\ Owed(mq[i + 1]) /\ mq'[i] = mq[i + 1]
          /\ \A j \in DOMAIN mq : mq[j] = mq[i + 1] => j = i + 1
          /\ \A k \in Handlers : Sending(k) => held[k] # mq[i + 1]
          /\ pillPc = "post" => mq[i + 1] # posting
      BY <1>3 DEF PillInv, PlacesInv
    <3>2. ASSUME NEW j \in DOMAIN mq', mq'[j] = mq'[i] PROVE j = i
      BY <1>3, <3>1, <3>2
    <3>3. mq'[i] # m
      BY <1>3, <1>7, <3>1
    <3> QED
      BY <3>1, <3>2, <3>3
  <2>2. pillPc = "post" => \A i \in DOMAIN mq' : mq'[i] # posting
    BY <1>3 DEF PillInv, PlacesInv
  <2>3. \A k \in Handlers : Sending(k)' =>
            /\ held'[k] \in Clients /\ Owed(held'[k])
            /\ \A l \in Handlers : Sending(l)' /\ held'[l] = held'[k] => l = k
            /\ pillPc = "post" => held'[k] # posting
            /\ \A i \in DOMAIN mq' : mq'[i] # Pill => held'[k] # mq'[i]
    <3> SUFFICES ASSUME NEW k \in Handlers, Sending(k)'
                 PROVE  /\ held'[k] \in Clients /\ Owed(held'[k])
                        /\ \A l \in Handlers : Sending(l)' /\ held'[l] = held'[k] => l = k
                        /\ pillPc = "post" => held'[k] # posting
                        /\ \A i \in DOMAIN mq' : mq'[i] # Pill => held'[k] # mq'[i]
      OBVIOUS
    <3>1. CASE k = h
      BY <1>2, <1>3, <1>6, <1>7, <2>1, <3>1
    <3>2. CASE k # h
      <4>1. Sending(k) /\ held'[k] = held[k]
        BY <1>2, <1>6, <3>2
      <4>2. ASSUME NEW l \in Handlers, Sending(l)', held'[l] = held'[k] PROVE l = k
        <5>1. CASE l = h
          BY <1>2, <1>6, <1>7, <4>1, <4>2, <5>1
        <5>2. CASE l # h
          BY <1>2, <1>6, <4>1, <4>2, <5>2 DEF PillInv, PlacesInv
        <5> QED
          BY <5>1, <5>2
      <4> QED
        BY <2>1, <4>1, <4>2 DEF PillInv, PlacesInv
    <3> QED
      BY <3>1, <3>2
  <2>4. pillPc = "post" => Owed(posting)
    BY DEF PillInv, PlacesInv
  <2> QED
    BY <1>1, <1>5, <2>1, <2>2, <2>3, <2>4 DEF PlacesInv
<1>9. DrainInv'
  <2>1. sockOpen => \A k \in Handlers : worker'[k] # "pills"
    BY <1>1, <1>2 DEF PillInv, DrainInv
  <2>2. ASSUME sockOpen, m = Pill
        PROVE  pillPc = "pills" /\ \A i \in DOMAIN mq' : mq'[i] = Pill
    <3>1. pillPc = "pills"
      BY <1>3, <2>2 DEF PillInv, DrainInv
    <3>2. \A i \in DOMAIN mq \ {1} : mq[i] = Pill
      BY <1>3, <2>2 DEF PillInv, DrainInv
    <3> QED
      BY <1>3, <3>1, <3>2
  <2>3. ASSUME sockOpen, m # Pill
        PROVE  \A k \in Handlers : worker'[k] # "gone"
    BY <1>2, <1>3, <2>3 DEF PillInv, DrainInv
  <2>4. ASSUME sockOpen
        PROVE  \A i, j \in DOMAIN mq' : i < j /\ mq'[i] = Pill => mq'[j] = Pill
    BY <1>3, <2>4 DEF PillInv, DrainInv
  <2>5. ASSUME sockOpen, pillPc # "pills"
        PROVE  /\ \A k \in Handlers : worker'[k] # "gone"
               /\ \A i \in DOMAIN mq' : mq'[i] # Pill
    BY <1>2, <1>3, <2>2, <2>5 DEF PillInv, DrainInv
  <2>6. ASSUME sockOpen, NEW c \in accepted \ answered
        PROVE  \/ pillPc = "post" /\ posting = c
               \/ \E i \in DOMAIN mq' : mq'[i] = c
               \/ \E k \in Handlers : Sending(k)' /\ held'[k] = c
    <3>1. c # Pill
      BY <2>6, PillAssumption DEF NetInv
    <3>2. ASSUME NEW i \in DOMAIN mq, mq[i] = c
          PROVE  \/ \E j \in DOMAIN mq' : mq'[j] = c
                 \/ \E k \in Handlers : Sending(k)' /\ held'[k] = c
      <4>1. CASE i = 1
        BY <1>2, <1>3, <1>6, <3>1, <3>2, <4>1
      <4>2. CASE i # 1
        BY <1>3, <3>2, <4>2
      <4> QED
        BY <4>1, <4>2
    <3>3. ASSUME NEW k \in Handlers, Sending(k), held[k] = c
          PROVE  Sending(k)' /\ held'[k] = c
      BY <1>2, <1>6, <3>3
    <3> QED
      BY <2>6, <3>2, <3>3 DEF PillInv, DrainInv
  <2> QED
    BY <1>1, <2>1, <2>2, <2>3, <2>4, <2>5, <2>6 DEF DrainInv, answered, net
<1> QED
  BY <1>4, <1>8, <1>9 DEF PillInv

LEMMA WorkerSendsStep ==
    ASSUME NetInv, CountInv, PillInv, NEW h \in Handlers, WorkerSend(h),
           UNCHANGED running
    PROVE  NetInv' /\ PillInv'
<1> DEFINE c == held[h]
<1>1. /\ worker[h] = "send" /\ sockOpen /\ Answer(c)
      /\ worker' = [worker EXCEPT ![h] = "recv"]
      /\ UNCHANGED <<pillPc, posting, mq, sockOpen, held>>
  BY DEF WorkerSend
<1>2. /\ c \in Clients /\ Owed(c)
      /\ \A k \in Handlers : Sending(k) /\ held[k] = c => k = h
  BY <1>1 DEF PillInv, PlacesInv, Sending
<1>3. /\ pillPc = "post" => posting # c
      /\ \A i \in DOMAIN mq : mq[i] # Pill => mq[i] # c
  BY <1>1, <1>2 DEF PillInv, PlacesInv, Sending
<1> HIDE DEF c
<1>4. NetInv' /\ UNCHANGED accepted /\ answers' = [answers EXCEPT ![c] = 1]
  BY <1>1, <1>2, NetAnswers
<1>5. answers'[c] = 1 /\ \A e \in Clients : e # c => answers'[e] = answers[e]
  BY <1>2, <1>4 DEF NetInv
<1>6. \A e \in Clients : Owed(e)' <=> Owed(e) /\ e # c
  BY <1>4, <1>5 DEF Owed
<1>7. /\ worker'[h] = "recv" /\ ~Sending(h)'
      /\ \A k \in Handlers : k # h => worker'[k] = worker[k] /\ Sending(k)' = Sending(k)
  BY <1>1 DEF CountInv, PillTypeOK, Sending
<1>8. PlacesInv'
  <2>1. ASSUME NEW i \in DOMAIN mq, mq[i] # Pill
        PROVE  Owed(mq[i])'
    <3>1. mq[i] \in Clients
      BY <2>1 DEF PillInv, PlacesInv, Owed, NetInv
    <3> QED
      BY <1>1, <1>3, <1>6, <2>1, <3>1 DEF PillInv, PlacesInv, Owed
  <2>2. ASSUME NEW k \in Handlers, Sending(k)'
        PROVE  Sending(k) /\ held[k] \in Clients /\ Owed(held[k])'
    <3>1. Sending(k) /\ k # h
      BY <1>7, <2>2
    <3> QED
      BY <1>1, <1>2, <1>6, <3>1 DEF PillInv, PlacesInv, Owed
  <2>3. pillPc = "post" => Owed(posting)'
    BY <1>1, <1>3, <1>6 DEF PillInv, PlacesInv, CountInv, Owed
  <2> HIDE DEF Owed, Sending
  <2> QED
    BY <1>1, <2>1, <2>2, <2>3 DEF PillInv, PlacesInv
<1>9. DrainInv'
  <2>1. ASSUME NEW e \in accepted' \ answered'
        PROVE  e \in accepted \ answered /\ e # c
    <3>1. e \in Clients /\ answers'[e] = 0
      BY <1>4, <2>1 DEF answered, NetInv
    <3> QED
      BY <1>4, <1>5, <2>1, <3>1 DEF answered
  <2>2. ASSUME NEW e \in accepted' \ answered'
        PROVE  \/ pillPc = "post" /\ posting = e
               \/ \E i \in DOMAIN mq : mq[i] = e
               \/ \E k \in Handlers : Sending(k)' /\ held[k] = e
    <3>1. ASSUME NEW k \in Handlers, Sending(k), held[k] = e PROVE Sending(k)'
      BY <1>7, <2>1, <3>1 DEF c
    <3> QED
      BY <1>1, <2>1, <3>1 DEF PillInv, DrainInv
  <2> QED
    BY <1>1, <1>7, <2>2 DEF PillInv, DrainInv
<1> QED
  BY <1>4, <1>8, <1>9 DEF PillInv

LEMMA PillStep ==
    ASSUME NetInv, CountInv, PillInv, PillNext, UNCHANGED running
    PROVE  NetInv' /\ PillInv'
<1>1. ASSUME NEW c \in Clients, PillReceive(c) PROVE NetInv' /\ PillInv'
  BY <1>1, PillTakesStep
<1>2. CASE PillKilled
  <2>1. NetInv' /\ UNCHANGED answers /\ accepted' = accepted
    BY <1>2, NetTakes, NetAssumption DEF PillKilled
  <2>2. /\ pillPc = "recv" /\ pillPc' = "pills"
        /\ UNCHANGED <<posting, mq, sockOpen, worker, held>>
    BY <1>2 DEF PillKilled
  <2>3. \A h : Sending(h)' = Sending(h)
    BY <2>2 DEF Sending
  <2> QED
    BY <2>1, <2>2, <2>3, PlacesIdle, DrainIdle DEF PillInv
<1>3. CASE PillReceiveFails
  <2>1. /\ pillPc = "recv" /\ ~sockOpen /\ pillPc' = "fail"
        /\ UNCHANGED <<net, posting, mq, sockOpen, worker, held>>
    BY <1>3 DEF PillReceiveFails
  <2>2. NetInv'
    BY <2>1, NetIdle DEF net
  <2>3. \A h : Sending(h)' = Sending(h)
    BY <2>1 DEF Sending
  <2> QED
    BY <2>1, <2>2, <2>3, PlacesIdle, DrainIdle DEF PillInv, net
<1>4. ASSUME NEW h \in Handlers, WorkerSendFails(h) PROVE NetInv' /\ PillInv'
  <2>1. /\ worker[h] = "send" /\ sockOpen' = FALSE
        /\ worker' = [worker EXCEPT ![h] = "pills"]
        /\ UNCHANGED <<net, pillPc, posting, mq, held>>
    BY <1>4 DEF WorkerSendFails
  <2>2. NetInv'
    BY <2>1, NetIdle DEF net
  <2>3. worker'[h] = "pills" /\ \A k \in Handlers : Sending(k)' => Sending(k)
    BY <2>1 DEF Sending, CountInv, PillTypeOK
  <2>4. PlacesInv'
    BY <2>1, <2>3, PlacesIdle DEF PillInv, net
  <2>5. DrainInv'
    BY <2>1, <2>3 DEF DrainInv
  <2> QED
    BY <2>2, <2>4, <2>5 DEF PillInv
<1>5. ASSUME \/ PillMainFails \/ \E how \in {"exited", "failed"} : PillExit(how)
             \/ \E h \in Handlers : WorkerExits(h)
      PROVE  NetInv' /\ PillInv'
  <2>1. UNCHANGED <<sent, socket, accepted, answers, pillPc, posting, mq, sockOpen,
                    worker, held>>
    BY <1>5 DEF PillMainFails, PillExit, WorkerExits, Stop, pillVars
  <2>2. NetInv'
    BY <2>1, NetIdle
  <2>3. \A h : Sending(h)' = Sending(h)
    BY <2>1 DEF Sending
  <2> QED
    BY <2>1, <2>2, <2>3, PlacesIdle, DrainIdle DEF PillInv
<1> QED
  BY <1>1, <1>2, <1>3, <1>4, <1>5, PillPostsStep, PillPillsStep, WorkerTakesStep,
     WorkerSendsStep
  DEF PillNext, PillMain, Worker

(* What is drained: when main ends the process after the sleep, no request *)
(* is left anywhere.                                                       *)
LEMMA PillsDrain ==
    ASSUME NetInv, CountInv, PillInv, PillExit("exited"), Patient, sockOpen
    PROVE  accepted = answered
<1>1. pillPc = "pills" /\ \A h \in Handlers : ~Working(h)
  BY DEF PillExit
<1>2. \A h \in Handlers : worker[h] = "gone" \/ (worker[h] = "recv" /\ mq = <<>>)
  <2>1. \A h \in Handlers : worker[h] \in {"recv", "send", "gone"}
    BY DEF PillInv, DrainInv, CountInv, PillTypeOK
  <2> QED
    BY <1>1, <2>1 DEF Working
<1>3. sockOpen
  OBVIOUS
<1>4. PICK h \in Handlers : TRUE
  BY PillAssumption
<1>5. \A i \in DOMAIN mq : mq[i] = Pill
  BY <1>2, <1>3, <1>4 DEF PillInv, DrainInv
<1>6. \A k \in Handlers : ~Sending(k)
  BY <1>2 DEF Sending
<1>7. Pill \notin accepted
  BY PillAssumption DEF NetInv
<1>8. accepted \ answered = {}
  BY <1>1, <1>3, <1>5, <1>6, <1>7 DEF PillInv, DrainInv
<1>9. answered \subseteq accepted
  BY DEF answered, NetInv, AnswersOnce
<1> QED
  BY <1>8, <1>9

-----------------------------------------------------------------------------
(* The multiplexed server.                                                 *)
LEMMA MuxIdle ==
    ASSUME MuxInv, UNCHANGED <<accepted, answers, muxVars>> PROVE MuxInv'
  BY DEF MuxInv, answered, muxVars

(* What the TCP clients do to the invariant is the same whoever is served. *)
LEMMA MuxCallers ==
    ASSUME NetInv, MuxInv, NEW c \in Callers, Connect(c) \/ TcpAsk(c), UNCHANGED running
    PROVE  NetInv' /\ MuxInv'
<1>0. UNCHANGED <<net, muxPc, ready, peer, fds>>
  BY DEF Connect, TcpAsk
<1>1. NetInv'
  BY <1>0, NetIdle DEF net
<1>2. /\ tcp \in [Callers -> {"out", "connected", "asked", "answered"}]
      /\ backlog \in Seq(Callers)
  BY DEF MuxInv
<1>3. CASE Connect(c)
  <2> DEFINE n == Len(backlog) + 1
  <2>1. /\ tcp[c] = "out" /\ tcp' = [tcp EXCEPT ![c] = "connected"]
        /\ backlog' = Append(backlog, c)
    BY <1>3 DEF Connect
  <2>2. /\ backlog' \in Seq(Callers) /\ backlog'[n] = c /\ n \notin DOMAIN backlog
        /\ DOMAIN backlog' = DOMAIN backlog \cup {n}
        /\ \A i \in DOMAIN backlog : backlog'[i] = backlog[i]
    BY <1>2, <2>1, Appended
  <2>3. backlog' # <<>>
    BY <1>2, <2>1, AppendProperties
  <2> HIDE DEF n
  <2>4. /\ tcp' \in [Callers -> {"out", "connected", "asked", "answered"}]
        /\ tcp'[c] = "connected" /\ \A e \in Callers \ {c} : tcp'[e] = tcp[e]
    BY <1>2, <2>1
  <2>5. c \notin fds /\ \A i \in DOMAIN backlog : backlog[i] # c
    BY <2>1 DEF MuxInv
  <2>6. \A i \in DOMAIN backlog : backlog[i] \in Callers
    BY <1>2, LenProperties
  <2>7. \A i \in DOMAIN backlog' :
          /\ backlog'[i] \notin fds /\ tcp'[backlog'[i]] # "out"
          /\ \A j \in DOMAIN backlog' : backlog'[j] = backlog'[i] => j = i
    <3>1. ASSUME NEW i \in DOMAIN backlog
          PROVE  /\ backlog'[i] \notin fds /\ tcp'[backlog'[i]] # "out"
                 /\ \A j \in DOMAIN backlog' : backlog'[j] = backlog'[i] => j = i
      <4>1. /\ backlog'[i] = backlog[i] /\ backlog[i] \notin fds /\ tcp[backlog[i]] # "out"
            /\ \A j \in DOMAIN backlog : backlog[j] = backlog[i] => j = i
            /\ backlog[i] \in Callers \ {c}
        BY <2>2, <2>5, <2>6, <3>1 DEF MuxInv
      <4> QED
        BY <2>2, <2>4, <4>1
    <3>2. /\ backlog'[n] \notin fds /\ tcp'[backlog'[n]] # "out"
          /\ \A j \in DOMAIN backlog' : backlog'[j] = backlog'[n] => j = n
      BY <2>2, <2>4, <2>5
    <3> QED
      BY <2>2, <3>1, <3>2
  <2>8. \A e \in fds : tcp'[e] # "out"
    BY <2>4 DEF MuxInv
  <2>9. \A e \in Callers : tcp'[e] = "answered" => e \in fds
    BY <2>4 DEF MuxInv
  <2>10. muxPc \in {"recv", "send"} => peer \in fds /\ tcp'[peer] # "answered"
    BY <2>4 DEF MuxInv
  <2> QED
    BY <1>0, <1>1, <2>2, <2>3, <2>4, <2>7, <2>8, <2>9, <2>10
    DEF MuxInv, answered, net
<1>4. CASE TcpAsk(c)
  <2>1. /\ tcp[c] = "connected" /\ tcp' = [tcp EXCEPT ![c] = "asked"]
        /\ UNCHANGED backlog
    BY <1>4 DEF TcpAsk
  <2>2. /\ tcp' \in [Callers -> {"out", "connected", "asked", "answered"}]
        /\ \A e \in Callers : /\ tcp'[e] = "out" <=> tcp[e] = "out"
                              /\ tcp'[e] = "answered" <=> tcp[e] = "answered"
    BY <1>2, <2>1
  <2>3. \A i \in DOMAIN backlog : backlog[i] \in Callers
    BY <1>2, LenProperties
  <2>4. \A i \in DOMAIN backlog : tcp'[backlog[i]] # "out"
    BY <2>2, <2>3 DEF MuxInv
  <2>5. /\ \A e \in fds : tcp'[e] # "out"
        /\ \A e \in Callers : tcp'[e] = "answered" => e \in fds
        /\ muxPc \in {"recv", "send"} => peer \in fds /\ tcp'[peer] # "answered"
    BY <2>2 DEF MuxInv
  <2> QED
    BY <1>0, <1>1, <2>1, <2>2, <2>4, <2>5 DEF MuxInv, answered, net
<1> QED
  BY <1>3, <1>4

LEMMA MuxServerStep ==
    ASSUME NetInv, MuxInv, MuxServer, UNCHANGED running
    PROVE  NetInv' /\ MuxInv'
<1>1. CASE Select
  <2>1. /\ UNCHANGED <<net, peer, backlog, tcp, fds>> /\ muxPc = "select"
        /\ muxPc' \in {"udp", "tcp"}
        /\ muxPc' = "tcp" \/ "tcp" \in ready' => backlog # <<>>
    BY <1>1 DEF Select
  <2>2. NetInv'
    BY <2>1, NetIdle DEF net
  <2> QED
    BY <2>1, <2>2 DEF MuxInv, answered, net
<1>2. ASSUME NEW d \in Clients \cup {Kill}, MuxReceive(d) PROVE NetInv' /\ MuxInv'
  <2>1. /\ UNCHANGED <<ready, backlog, tcp, fds>> /\ muxPc = "udp" /\ Take(d)
        /\ peer' = d /\ muxPc' = IF d = Kill THEN "end" ELSE "answer"
    BY <1>2 DEF MuxReceive
  <2>2. NetInv' /\ UNCHANGED answers
    BY <2>1, NetTakes
  <2>3. accepted = answered
    BY <2>1 DEF MuxInv
  <2>4. CASE d = Kill
    <3>1. accepted' = accepted
      BY <2>1, <2>4, NetTakes, NetAssumption
    <3> QED
      BY <2>1, <2>2, <2>3, <2>4, <3>1 DEF MuxInv, answered
  <2>5. CASE d \in Clients
    <3>1. d # Kill /\ answers[d] = 0 /\ accepted' = accepted \cup {d}
      BY <2>1, <2>5, NetTakes, NetAssumption
    <3>2. d \notin answered /\ answered' = answered
      BY <2>2, <3>1 DEF answered
    <3>3. accepted' \ answered' = {d}
      BY <2>3, <3>1, <3>2
    <3> QED
      BY <2>1, <2>2, <2>5, <3>1, <3>3 DEF MuxInv
  <2> QED
    BY <2>4, <2>5
<1>3. CASE MuxAnswer
  <2>1. /\ UNCHANGED <<ready, peer, backlog, tcp, fds>> /\ muxPc = "answer"
        /\ Answer(peer) /\ muxPc' = IF "tcp" \in ready THEN "tcp" ELSE "select"
    BY <1>3 DEF MuxAnswer
  <2>2. peer \in Clients /\ accepted \ answered = {peer}
    BY <2>1 DEF MuxInv
  <2>3. Owed(peer)
    BY <2>2, OwedIsOpen
  <2>4. NetInv' /\ UNCHANGED accepted /\ answers' = [answers EXCEPT ![peer] = 1]
    BY <2>1, <2>2, <2>3, NetAnswers
  <2>5. answered' = answered \cup {peer}
    BY <2>2, <2>4 DEF answered, NetInv
  <2>6. answered \subseteq accepted
    BY DEF answered, NetInv, AnswersOnce
  <2>7. accepted' = answered'
    BY <2>2, <2>4, <2>5, <2>6
  <2> QED
    BY <2>1, <2>4, <2>7 DEF MuxInv
<1>4. CASE MuxAccept
  <2>1. /\ UNCHANGED <<net, ready, tcp>> /\ muxPc = "tcp" /\ muxPc' = "recv"
        /\ fds' = fds \cup {Head(backlog)} /\ backlog' = Tail(backlog)
        /\ peer' = Head(backlog)
    BY <1>4 DEF MuxAccept
  <2>2. backlog \in Seq(Callers) /\ backlog # <<>>
    BY <2>1 DEF MuxInv
  <2> DEFINE c == Head(backlog)
  <2>3. /\ 1 \in DOMAIN backlog /\ backlog[1] = c /\ c \in Callers
        /\ backlog' \in Seq(Callers)
        /\ \A i \in DOMAIN backlog' : /\ i + 1 \in DOMAIN backlog /\ i + 1 # 1
                                      /\ backlog'[i] = backlog[i + 1]
        /\ \A i, j \in DOMAIN backlog' : i + 1 = j + 1 => i = j
    BY <2>1, <2>2, TakenOff
  <2> HIDE DEF c
  <2>4. /\ c \notin fds /\ tcp[c] # "out" /\ tcp[c] # "answered"
        /\ \A j \in DOMAIN backlog : backlog[j] = c => j = 1
    BY <2>3 DEF MuxInv
  <2>5. NetInv'
    BY <2>1, NetIdle DEF net
  <2>6. \A i \in DOMAIN backlog' :
          /\ backlog'[i] \notin fds \cup {c} /\ tcp[backlog'[i]] # "out"
          /\ \A j \in DOMAIN backlog' : backlog'[j] = backlog'[i] => j = i
    BY <2>3, <2>4 DEF MuxInv
  <2>7. fds' = fds \cup {c} /\ peer' = c
    BY <2>1 DEF c
  <2> QED
    BY <2>1, <2>3, <2>4, <2>5, <2>6, <2>7 DEF MuxInv, answered, net
<1>5. CASE MuxRecv
  <2>1. /\ UNCHANGED <<net, ready, peer, backlog, tcp, fds>> /\ muxPc = "recv"
        /\ muxPc' = IF peer = TcpKill THEN "end" ELSE "send"
    BY <1>5 DEF MuxRecv
  <2>2. NetInv'
    BY <2>1, NetIdle DEF net
  <2>3. peer \in fds /\ (peer = TcpKill \/ peer \in TcpClients)
    BY <2>1 DEF MuxInv, Callers
  <2> QED
    BY <2>1, <2>2, <2>3 DEF MuxInv, answered, net
<1>6. CASE MuxSend
  <2>1. /\ UNCHANGED <<net, ready, peer, backlog, fds>> /\ muxPc = "send"
        /\ tcp' = [tcp EXCEPT ![peer] = "answered"] /\ muxPc' = "select"
    BY <1>6 DEF MuxSend
  <2>2. NetInv'
    BY <2>1, NetIdle DEF net
  <2>3. /\ tcp' \in [Callers -> {"out", "connected", "asked", "answered"}]
        /\ \A e \in Callers : tcp'[e] = "answered" <=> tcp[e] = "answered" \/ e = peer
        /\ \A e \in Callers : tcp'[e] = "out" => tcp[e] = "out"
    BY <2>1 DEF MuxInv
  <2>4. peer \in fds
    BY <2>1 DEF MuxInv
  <2>5. \A i \in DOMAIN backlog : backlog[i] \in Callers
    BY LenProperties DEF MuxInv
  <2>6. \A i \in DOMAIN backlog : tcp'[backlog[i]] # "out"
    BY <2>3, <2>5 DEF MuxInv
  <2>7. /\ \A e \in fds : tcp'[e] # "out"
        /\ \A e \in Callers : tcp'[e] = "answered" => e \in fds
    BY <2>3, <2>4 DEF MuxInv
  <2> QED
    BY <2>1, <2>2, <2>3, <2>6, <2>7 DEF MuxInv, answered, net
<1>7. CASE MuxAcceptFails \/ MuxSendFails \/ MuxEnd
  <2>1. UNCHANGED <<sent, socket, accepted, answers, muxVars>>
    BY <1>7 DEF MuxAcceptFails, MuxSendFails, MuxEnd, Stop
  <2> QED
    BY <2>1, NetIdle, MuxIdle
<1> QED
  BY <1>1, <1>2, <1>3, <1>4, <1>5, <1>6, <1>7 DEF MuxServer

LEMMA UdpHoldsStep == ASSUME UdpHolds, MuxNext PROVE UdpHolds'
<1>1. CASE Select
  BY <1>1 DEF Select, UdpHolds, net
<1>2. ASSUME NEW d \in Clients \cup {Kill}, MuxReceive(d) PROVE UdpHolds'
  BY <1>2 DEF MuxReceive, UdpHolds
<1>3. CASE MuxAnswer \/ MuxAccept \/ MuxRecv \/ MuxSend
  BY <1>3 DEF MuxAnswer, MuxAccept, MuxRecv, MuxSend, UdpHolds
<1>4. CASE MuxAcceptFails \/ MuxSendFails \/ MuxEnd
  <2>1. UNCHANGED <<muxPc, socket>>
    BY <1>4 DEF MuxAcceptFails, MuxSendFails, MuxEnd, Stop, muxVars
  <2> QED
    BY <2>1 DEF UdpHolds
<1>5. ASSUME NEW c \in Callers, Connect(c) \/ TcpAsk(c) PROVE UdpHolds'
  BY <1>5 DEF Connect, TcpAsk, UdpHolds, net
<1> QED
  BY <1>1, <1>2, <1>3, <1>4, <1>5 DEF MuxNext, MuxServer

-----------------------------------------------------------------------------
(* The four servers together.                                              *)
ServersInv ==
    /\ NetInv /\ HandOverInv /\ CountInv
    /\ running = "tpr" => TprInv
    /\ running = "slots" => SlotInv
    /\ running = "pills" => PillInv
    /\ running = "mux" => MuxInv /\ UdpHolds
    /\ DrainsBeforeExit

LEMMA ServersStart == Init => ServersInv
<1> SUFFICES ASSUME Init PROVE ServersInv
  OBVIOUS
<1>1. NetInv /\ HandOverInv /\ CountInv
  BY NetStart, HandOverInit, CountStart DEF Init
<1>2. TprInv
  <2>1. inFlight = {} /\ accepted = {}
    BY DEF Init, TprInit, NetInit
  <2> QED
    BY <2>1 DEF TprInv, Owed
<1>3. accepted = {} /\ answered = {}
  <2>1. accepted = {} /\ answers = [c \in Clients |-> 0] /\ ~(0 > 0)
    BY DEF Init, NetInit
  <2> QED
    BY <2>1 DEF answered
<1>4. SlotInv
  <2>1. \A s \in Slots : ~Owes(s)
    BY DEF Init, SlotInit, Owes, Pending
  <2>2. NoneForgotten
    BY <1>3 DEF NoneForgotten
  <2> QED
    BY <2>1, <2>2 DEF Init, SlotInit, SlotInv
<1>5. PillInv
  <2>1. /\ pillPc = "recv" /\ mq = <<>> /\ sockOpen = TRUE
        /\ \A h \in Handlers : worker[h] = "recv"
    BY DEF Init, PillInit
  <2>2. DOMAIN mq = {}
    BY <2>1
  <2> QED
    BY <1>3, <2>1, <2>2 DEF PillInv, PlacesInv, DrainInv, Sending
<1>6. MuxInv /\ UdpHolds
  <2>1. /\ muxPc = "select" /\ ready = {} /\ backlog = <<>> /\ fds = {}
        /\ tcp = [c \in Callers |-> "out"]
    BY DEF Init, MuxInit
  <2>2. backlog \in Seq(Callers) /\ DOMAIN backlog = {}
    BY <2>1, EmptySeq
  <2> QED
    BY <1>3, <2>1, <2>2 DEF MuxInv, UdpHolds
<1>7. DrainsBeforeExit
  BY <1>3 DEF DrainsBeforeExit, GracefulStop
<1> QED
  BY <1>1, <1>2, <1>4, <1>5, <1>6, <1>7 DEF ServersInv

(* A step of the clients only.                                             *)
LEMMA ServersIdle ==
    ASSUME ServersInv, NetInv', socket \subseteq socket',
           UNCHANGED <<running, accepted, answers, status, tprVars, slotVars,
                       pillVars, muxVars>>
    PROVE  ServersInv'
<1>1. HandOverInv' /\ CountInv'
  BY HandOverIdle, CountIdle DEF ServersInv
<1>2. running = "tpr" => TprInv'
  BY DEF ServersInv, TprInv, Owed, tprVars
<1>3. running = "slots" => SlotInv'
  BY DEF ServersInv, SlotInv, Owed, Owes, Pending, NoneForgotten, answered, slotVars
<1>4. running = "pills" => PillInv'
  BY DEF ServersInv, PillInv, PlacesInv, DrainInv, Owed, Sending, answered, pillVars
<1>5. running = "mux" => MuxInv' /\ UdpHolds'
  BY MuxIdle DEF ServersInv, UdpHolds, muxVars
<1>6. DrainsBeforeExit'
  BY DEF ServersInv, DrainsBeforeExit, GracefulStop, answered, pillVars
<1> QED
  BY <1>1, <1>2, <1>3, <1>4, <1>5, <1>6 DEF ServersInv

LEMMA PillExits ==
    ASSUME PillNext, status' = "exited" PROVE PillExit("exited")
<1>1. status = "up"
  BY DEF PillNext
<1>2. CASE PillMain
  <2>1. CASE UNCHANGED status
    BY <1>1, <2>1
  <2>2. CASE PillMainFails
    BY <2>2 DEF PillMainFails, Stop
  <2>3. CASE \E how \in {"exited", "failed"} : PillExit(how)
    BY <2>3 DEF PillExit, Stop
  <2> QED
    BY <1>2, <2>1, <2>2, <2>3
    DEF PillMain, PostRequest, PillKilled, PillReceiveFails, PostPill, PillReceive,
        Take, net
<1>3. ASSUME NEW h \in Handlers, Worker(h) PROVE FALSE
  <2>1. UNCHANGED status \/ status' = "failed"
    BY <1>3 DEF Worker, WorkerReceive, WorkerSend, WorkerSendFails, PostPill,
                WorkerExits, Answer, Stop, net
  <2> QED
    BY <1>1, <2>1
<1> QED
  BY <1>2, <1>3 DEF PillNext

LEMMA MuxExits ==
    ASSUME status = "up", MuxServer, status' = "exited" PROVE MuxEnd
<1>1. ASSUME NEW d \in Clients \cup {Kill}, MuxReceive(d) PROVE UNCHANGED status
  BY <1>1 DEF MuxReceive, Take
<1>2. CASE MuxAnswer
  BY <1>2 DEF MuxAnswer, Answer
<1>3. CASE Select \/ MuxAccept \/ MuxRecv \/ MuxSend
  BY <1>3 DEF Select, MuxAccept, MuxRecv, MuxSend, net
<1>4. CASE MuxAcceptFails \/ MuxSendFails
  BY <1>4 DEF MuxAcceptFails, MuxSendFails, Stop
<1> QED
  BY <1>1, <1>2, <1>3, <1>4 DEF MuxServer

LEMMA ServersStep == ASSUME ServersInv, [Next]_vars PROVE ServersInv'
<1> USE DEF ServersInv
<1>0. HandOverInv'
  BY HandOverStep
<1>1. CASE UNCHANGED vars
  <2>1. NetInv'
    BY <1>1, NetIdle DEF vars, net
  <2> QED
    BY <1>1, <2>1, ServersIdle DEF vars, net
<1>2. CASE UdpClient
  <2>1. /\ NetInv' /\ UNCHANGED <<accepted, answers, status>>
        /\ socket \subseteq socket'
    BY <1>2, NetClient
  <2>2. UNCHANGED <<running, tprVars, slotVars, pillVars, muxVars>>
    BY <1>2 DEF UdpClient, Others
  <2> HIDE DEF ServersInv
  <2> QED
    BY <2>1, <2>2, ServersIdle
<1>3. CASE ParallelStep
  <2>1. running = "tpr" /\ UNCHANGED <<running, pillVars>> /\ TprNext
    BY <1>3 DEF ParallelStep, Runs, Others
  <2>2. NetInv' /\ TprInv' /\ CountInv'
    BY <2>1, TprStep, CountIdle
  <2>3. DrainsBeforeExit'
    BY <2>1 DEF DrainsBeforeExit
  <2> QED
    BY <1>0, <2>1, <2>2, <2>3
<1>4. CASE BufferStep
  <2>1. running = "slots" /\ UNCHANGED <<running, pillVars>> /\ SlotNext
    BY <1>4 DEF BufferStep, Runs, Others
  <2>2. NetInv' /\ SlotInv' /\ CountInv'
    BY <2>1, SlotMainStep, SlotHandlerStep, CountIdle DEF SlotNext
  <2>3. DrainsBeforeExit'
    BY <2>1 DEF DrainsBeforeExit
  <2> QED
    BY <1>0, <2>1, <2>2, <2>3
<1>5. CASE ConsumerStep
  <2>1. running = "pills" /\ UNCHANGED running /\ PillNext
    BY <1>5 DEF ConsumerStep, Runs, Others
  <2>2. NetInv' /\ PillInv' /\ CountInv'
    BY <2>1, PillStep, CountStep
  <2>3. DrainsBeforeExit'
    <3>1. ASSUME Patient, sockOpen', status' = "exited"
          PROVE  accepted' = answered'
      <4>1. PillExit("exited")
        BY <2>1, <3>1, PillExits
      <4>2. sockOpen /\ UNCHANGED <<accepted, answers>>
        BY <3>1, <4>1 DEF PillExit, Stop, pillVars
      <4>3. accepted = answered
        BY <2>1, <3>1, <4>1, <4>2, PillsDrain
      <4> QED
        BY <4>2, <4>3 DEF answered
    <3> QED
      BY <3>1 DEF DrainsBeforeExit, GracefulStop
  <2> QED
    BY <1>0, <2>1, <2>2, <2>3
<1>6. CASE MultiplexedStep
  <2>1. running = "mux" /\ UNCHANGED <<running, pillVars>> /\ MuxNext
    BY <1>6 DEF MultiplexedStep, Runs, Others
  <2>2. NetInv' /\ MuxInv' /\ UdpHolds'
    BY <2>1, MuxServerStep, MuxCallers, UdpHoldsStep DEF MuxNext
  <2>3. CountInv'
    BY <2>1, CountIdle
  <2>4. DrainsBeforeExit'
    <3>1. ASSUME status = "up", MuxServer, status' = "exited"
          PROVE  accepted' = answered'
      <4>1. MuxEnd
        BY <3>1, MuxExits
      <4>2. accepted = answered /\ UNCHANGED <<accepted, answers>>
        BY <2>1, <4>1 DEF MuxEnd, MuxInv, Stop
      <4> QED
        BY <4>2 DEF answered
    <3>2. ASSUME NEW c \in Callers, Connect(c) \/ TcpAsk(c)
          PROVE  UNCHANGED <<status, accepted, answers>>
      BY <3>2 DEF Connect, TcpAsk, net
    <3> QED
      BY <2>1, <3>1, <3>2
      DEF MuxNext, DrainsBeforeExit, GracefulStop, answered, pillVars
  <2> QED
    BY <1>0, <2>1, <2>2, <2>3, <2>4
<1> QED
  BY <1>1, <1>2, <1>3, <1>4, <1>5, <1>6 DEF Next

(* Nobody is answered twice, nor without having asked, by any of the four: *)
(* a client received is in one place until its answer is sent, although    *)
(* the address crosses from main to a thread in shared memory or in a      *)
(* queue (parallel/server.c 60-79, 99; parallel_buff/server.c 57-87,       *)
(* 101-121; producer_consumer/server.c 82-102, 117-147;                    *)
(* multyplexed_fd/server.c 83-108).                                        *)
THEOREM AnswersOnceAlways == Spec => []AnswersOnce
<1>1. ServersInv => AnswersOnce
  BY DEF ServersInv, NetInv
<1> QED
  BY ServersStart, ServersStep, <1>1, PTL DEF Spec

(* The server with the slots forgets no request before a kill, with fewer  *)
(* slots than clients (parallel_buff/server.c 57-68, 86-87, 101-121).      *)
THEOREM SlotsKeepRequestsAlways == Spec => []SlotsKeepRequests
<1>1. ServersInv => SlotsKeepRequests
  BY DEF ServersInv, SlotInv, SlotsKeepRequests
<1> QED
  BY ServersStart, ServersStep, <1>1, PTL DEF Spec

(* Every handler gets its pill and every pill its handler, for any number  *)
(* of handlers, as long as no sendto has failed (producer_consumer/        *)
(* server.c 93-98, 117-130, 152-157).                                      *)
THEOREM EveryPillItsHandlerAlways == Spec => []EveryPillItsHandler
<1>1. ServersInv => EveryPillItsHandler
  BY DEF ServersInv, CountInv
<1> QED
  BY ServersStart, ServersStep, <1>1, PTL DEF Spec

(* The other three forget none either: whom they received and have not     *)
(* answered is in the hands of one of their threads or in the queue, for   *)
(* any number of clients and handlers and any capacity of the queue        *)
(* (parallel/server.c 60-79, 99; producer_consumer/server.c 82-102,        *)
(* 117-147; multyplexed_fd/server.c 83-91).                                *)
THEOREM NobodyForgottenAlways == Spec => []NobodyForgotten
<1>1. ServersInv => NobodyForgotten
  <2> SUFFICES ASSUME ServersInv PROVE NobodyForgotten
    OBVIOUS
  <2>1. accepted \ answered = {c \in Clients : Owed(c)}
    BY OwedIsOpen DEF ServersInv
  <2>2. ASSUME running = "tpr" PROVE accepted \ answered = inFlight
    BY <2>1, <2>2 DEF ServersInv, TprInv
  <2> DEFINE Somewhere(c) ==
                \/ pillPc = "post" /\ posting = c
                \/ \E i \in DOMAIN mq : mq[i] = c
                \/ \E h \in Handlers : Sending(h) /\ held[h] = c
  <2>3. ASSUME running = "pills", sockOpen
        PROVE  accepted \ answered = {c \in Clients : Somewhere(c)}
    <3>1. PlacesInv /\ DrainInv
      BY <2>3 DEF ServersInv, PillInv
    <3>2. ASSUME NEW c \in Clients, Somewhere(c) PROVE Owed(c)
      BY <3>1, <3>2, PillAssumption DEF PlacesInv
    <3>3. \A c \in accepted \ answered : Somewhere(c)
      BY <2>3, <3>1 DEF DrainInv
    <3> HIDE DEF Somewhere
    <3> QED
      BY <2>1, <3>2, <3>3
  <2>4. ASSUME running = "mux"
        PROVE  accepted \ answered = IF muxPc = "answer" THEN {peer} ELSE {}
    BY <2>4 DEF ServersInv, MuxInv
  <2> QED
    BY <2>2, <2>3, <2>4 DEF NobodyForgotten, Sending
<1> QED
  BY ServersStart, ServersStep, <1>1, PTL DEF Spec

(* What select saw is still there when recvfrom or accept asks for it      *)
(* (multyplexed_fd/server.c 83-109).                                       *)
THEOREM NeverWaitsInVainAlways == Spec => []NeverWaitsInVain
<1>1. ServersInv => NeverWaitsInVain
  BY DEF ServersInv, MuxInv, UdpHolds, SelectHolds, NeverWaitsInVain
<1> QED
  BY ServersStart, ServersStep, <1>1, PTL DEF Spec

(* The two servers that drain their requests before they end normally have *)
(* answered every client they have received, the consumers as long as no   *)
(* sendto has failed (producer_consumer/server.c 93-98, 128-146;           *)
(* multyplexed_fd/server.c 83-109).                                        *)
THEOREM DrainsBeforeExitAlways == Spec => []DrainsBeforeExit
<1>1. ServersInv => DrainsBeforeExit
  BY DEF ServersInv
<1> QED
  BY ServersStart, ServersStep, <1>1, PTL DEF Spec

-----------------------------------------------------------------------------
(* Each server does what TimeService promises.                             *)
AllClients == Clients \cup TcpClients

LEMMA PromiseInit == Init => Promise!Init
<1> SUFFICES ASSUME Init PROVE Promise!Init
  OBVIOUS
<1>1. accepted = {} /\ answers = [c \in Clients |-> 0] /\ status = "up"
  BY DEF Init, NetInit
<1>2. fds = {} /\ tcp = [c \in Callers |-> "out"]
  BY DEF Init, MuxInit
<1>3. tcpAccepted = {} /\ tcpAnswered = {}
  BY <1>2 DEF tcpAccepted, tcpAnswered, Callers
<1>4. answersToAll = [c \in AllClients |-> 0]
  BY <1>1, <1>3 DEF answersToAll, AllClients
<1> QED
  BY <1>1, <1>3, <1>4 DEF Promise!Init, AllClients

LEMMA PromiseIdle ==
    ASSUME UNCHANGED <<accepted, answers, status, fds>>,
           \A c \in TcpClients : tcp'[c] = "answered" <=> tcp[c] = "answered"
    PROVE  UNCHANGED Promise!vars
<1>1. UNCHANGED <<tcpAccepted, tcpAnswered>>
  BY DEF tcpAccepted, tcpAnswered
<1> QED
  BY <1>1 DEF Promise!vars, answersToAll

LEMMA PromiseAccepts ==
    ASSUME ServersInv, status = "up", NEW d, Take(d), UNCHANGED <<fds, tcp>>
    PROVE  [Promise!Next]_Promise!vars
<1>1. /\ UNCHANGED <<answers, status>> /\ d \in socket
      /\ accepted' = accepted \cup ({d} \cap Clients)
  BY DEF Take
<1>2. UNCHANGED <<tcpAccepted, tcpAnswered>>
  BY DEF tcpAccepted, tcpAnswered
<1>3. UNCHANGED answersToAll
  BY <1>1, <1>2 DEF answersToAll
<1>4. CASE d \in Clients
  <2>1. d \notin accepted \cup tcpAccepted
    BY <1>1, <1>4, TcpAssumption DEF ServersInv, NetInv, tcpAccepted
  <2>2. Promise!Accept(d)
    BY <1>1, <1>2, <1>3, <1>4, <2>1 DEF Promise!Accept
  <2> QED
    BY <1>4, <2>2 DEF Promise!Next
<1>5. CASE d \notin Clients
  BY <1>1, <1>2, <1>3, <1>5 DEF Promise!vars
<1> QED
  BY <1>4, <1>5

LEMMA PromiseAnswers ==
    ASSUME ServersInv, status = "up", NEW c \in Clients, Owed(c), Answer(c),
           UNCHANGED <<fds, tcp>>
    PROVE  [Promise!Next]_Promise!vars
<1>1. /\ UNCHANGED <<accepted, status>> /\ c \in accepted /\ answers[c] = 0
      /\ answers' = [answers EXCEPT ![c] = 1]
  BY DEF Answer, Owed, ServersInv, NetInv
<1>2. UNCHANGED <<tcpAccepted, tcpAnswered>>
  BY DEF tcpAccepted, tcpAnswered
<1>3. /\ answers'[c] = 1 /\ \A e \in Clients \ {c} : answers'[e] = answers[e]
  BY <1>1 DEF ServersInv, NetInv
<1>4. answersToAll' = [answersToAll EXCEPT ![c] = 1]
  BY <1>2, <1>3 DEF answersToAll
<1>5. answersToAll[c] = 0
  BY <1>1 DEF answersToAll
<1>6. Promise!Answer(c)
  BY <1>1, <1>2, <1>4, <1>5 DEF Promise!Answer
<1> QED
  BY <1>6 DEF Promise!Next

LEMMA PromiseStops ==
    ASSUME status = "up", NEW how \in {"exited", "failed"}, Stop(how),
           UNCHANGED <<fds, tcp>>
    PROVE  [Promise!Next]_Promise!vars
<1>1. UNCHANGED <<accepted, answers>> /\ status' = how /\ how # "up"
  BY DEF Stop
<1>2. UNCHANGED <<tcpAccepted, tcpAnswered>>
  BY DEF tcpAccepted, tcpAnswered
<1>3. UNCHANGED answersToAll
  BY <1>1, <1>2 DEF answersToAll
<1>4. Promise!Stop
  BY <1>1, <1>2, <1>3 DEF Promise!Stop
<1> QED
  BY <1>4 DEF Promise!Next

LEMMA TprPromise ==
    ASSUME ServersInv, running = "tpr", TprNext, UNCHANGED muxVars
    PROVE  [Promise!Next]_Promise!vars
<1>0. status = "up" /\ UNCHANGED <<fds, tcp>>
  BY DEF TprNext, muxVars
<1>1. ASSUME TprKilled \/ \E c \in Clients : TprReceive(c)
      PROVE  [Promise!Next]_Promise!vars
  BY <1>0, <1>1, PromiseAccepts DEF TprKilled, TprReceive
<1>2. CASE TprClose
  <2>1. UNCHANGED Promise!vars
    BY <1>0, <1>2, PromiseIdle DEF TprClose, net
  <2> QED
    BY <2>1
<1>3. ASSUME TprReturn \/ \E c \in Clients : HandlerFails(c)
      PROVE  [Promise!Next]_Promise!vars
  BY <1>0, <1>3, PromiseStops DEF TprReturn, HandlerFails
<1>4. ASSUME NEW c \in Clients, HandlerSends(c) PROVE [Promise!Next]_Promise!vars
  BY <1>0, <1>4, PromiseAnswers DEF HandlerSends, ServersInv, TprInv
<1> QED
  BY <1>1, <1>2, <1>3, <1>4 DEF TprNext

LEMMA SlotPromise ==
    ASSUME ServersInv, running = "slots", SlotNext, UNCHANGED muxVars
    PROVE  [Promise!Next]_Promise!vars
<1>0. status = "up" /\ UNCHANGED <<fds, tcp>>
  BY DEF SlotNext, muxVars
<1>1. ASSUME SlotKilled \/ \E c \in Clients : SlotReceive(c)
      PROVE  [Promise!Next]_Promise!vars
  BY <1>0, <1>1, PromiseAccepts DEF SlotKilled, SlotReceive
<1>2. ASSUME \/ Scan \/ SetAddress \/ SetReady \/ KillSlot \/ KillDone
             \/ \E s \in Slots : Poll(s) \/ Test(s) \/ Clear(s)
      PROVE  [Promise!Next]_Promise!vars
  <2>1. UNCHANGED <<accepted, answers, status>>
    BY <1>2 DEF Scan, SetAddress, SetReady, KillSlot, KillDone, Poll, Test, Clear, net
  <2>2. UNCHANGED Promise!vars
    BY <1>0, <2>1, PromiseIdle
  <2> QED
    BY <2>2
<1>3. ASSUME SlotExit \/ \E s \in Slots : SlotSendFails(s)
      PROVE  [Promise!Next]_Promise!vars
  BY <1>0, <1>3, PromiseStops DEF SlotExit, SlotSendFails
<1>4. ASSUME NEW s \in Slots, SlotSend(s) PROVE [Promise!Next]_Promise!vars
  <2>1. Owes(s)
    BY <1>4 DEF SlotSend, HandlerAt, Owes
  <2>2. address[s] \in Clients /\ Owed(address[s]) /\ Answer(address[s])
    BY <1>4, <2>1 DEF SlotSend, ServersInv, SlotInv
  <2> QED
    BY <1>0, <2>2, PromiseAnswers
<1> QED
  BY <1>1, <1>2, <1>3, <1>4 DEF SlotNext, SlotMain, SlotHandler

LEMMA PillPromise ==
    ASSUME ServersInv, running = "pills", PillNext, UNCHANGED muxVars
    PROVE  [Promise!Next]_Promise!vars
<1>0. status = "up" /\ UNCHANGED <<fds, tcp>>
  BY DEF PillNext, muxVars
<1>1. ASSUME PillKilled \/ \E c \in Clients : PillReceive(c)
      PROVE  [Promise!Next]_Promise!vars
  BY <1>0, <1>1, PromiseAccepts DEF PillKilled, PillReceive
<1>2. ASSUME \/ PostRequest \/ PillReceiveFails \/ PostPill(Main)
             \/ \E h \in Handlers : WorkerReceive(h) \/ WorkerSendFails(h) \/ PostPill(h)
      PROVE  [Promise!Next]_Promise!vars
  <2>1. UNCHANGED <<accepted, answers, status>>
    BY <1>2 DEF PostRequest, PillReceiveFails, PostPill, WorkerReceive,
                WorkerSendFails, net
  <2>2. UNCHANGED Promise!vars
    BY <1>0, <2>1, PromiseIdle
  <2> QED
    BY <2>2
<1>3. ASSUME \/ PillMainFails \/ \E how \in {"exited", "failed"} : PillExit(how)
             \/ \E h \in Handlers : WorkerExits(h)
      PROVE  [Promise!Next]_Promise!vars
  BY <1>0, <1>3, PromiseStops DEF PillMainFails, PillExit, WorkerExits
<1>4. ASSUME NEW h \in Handlers, WorkerSend(h) PROVE [Promise!Next]_Promise!vars
  <2>1. held[h] \in Clients /\ Owed(held[h]) /\ Answer(held[h])
    BY <1>4 DEF WorkerSend, ServersInv, PillInv, PlacesInv, Sending
  <2> QED
    BY <1>0, <2>1, PromiseAnswers
<1> QED
  BY <1>1, <1>2, <1>3, <1>4 DEF PillNext, PillMain, Worker

LEMMA MuxPromise ==
    ASSUME ServersInv, running = "mux", MuxNext PROVE [Promise!Next]_Promise!vars
<1>0. MuxInv
  BY DEF ServersInv
<1>1. ASSUME NEW c \in Callers, Connect(c) \/ TcpAsk(c)
      PROVE  [Promise!Next]_Promise!vars
  <2>1. UNCHANGED <<accepted, answers, status, fds>>
    BY <1>1 DEF Connect, TcpAsk, net
  <2>2. \A e \in TcpClients : tcp'[e] = "answered" <=> tcp[e] = "answered"
    BY <1>0, <1>1 DEF Connect, TcpAsk, MuxInv, Callers
  <2>3. UNCHANGED Promise!vars
    BY <2>1, <2>2, PromiseIdle
  <2> QED
    BY <2>3
<1>2. ASSUME NEW d \in Clients \cup {Kill}, MuxReceive(d), status = "up"
      PROVE  [Promise!Next]_Promise!vars
  BY <1>2, PromiseAccepts DEF MuxReceive
<1>3. ASSUME MuxAnswer, status = "up" PROVE [Promise!Next]_Promise!vars
  <2>1. Answer(peer) /\ UNCHANGED <<fds, tcp>> /\ peer \in Clients
        /\ accepted \ answered = {peer}
    BY <1>0, <1>3 DEF MuxAnswer, MuxInv
  <2>2. Owed(peer)
    BY <2>1, OwedIsOpen DEF ServersInv
  <2> QED
    BY <1>3, <2>1, <2>2, PromiseAnswers
<1>4. ASSUME Select \/ MuxRecv PROVE [Promise!Next]_Promise!vars
  <2>1. UNCHANGED <<accepted, answers, status, fds, tcp>>
    BY <1>4 DEF Select, MuxRecv, net
  <2>2. UNCHANGED Promise!vars
    BY <2>1, PromiseIdle
  <2> QED
    BY <2>2
<1>5. ASSUME MuxAcceptFails \/ MuxSendFails \/ MuxEnd, status = "up"
      PROVE  [Promise!Next]_Promise!vars
  BY <1>5, PromiseStops DEF MuxAcceptFails, MuxSendFails, MuxEnd, muxVars
<1>6. ASSUME MuxAccept, status = "up" PROVE [Promise!Next]_Promise!vars
  <2> DEFINE c == Head(backlog)
  <2>1. /\ UNCHANGED <<accepted, answers, status, tcp>> /\ muxPc = "tcp"
        /\ fds' = fds \cup {c}
    BY <1>6 DEF MuxAccept, net
  <2>2. backlog \in Seq(Callers) /\ backlog # <<>>
    BY <1>0, <2>1 DEF MuxInv
  <2>3. 1 \in DOMAIN backlog /\ backlog[1] = c /\ c \in Callers
    BY <2>2, TakenOff
  <2> HIDE DEF c
  <2>4. c \notin fds
    BY <1>0, <2>3 DEF MuxInv
  <2>5. UNCHANGED tcpAnswered
    BY <2>1 DEF tcpAnswered
  <2>6. UNCHANGED answersToAll
    BY <2>1, <2>5 DEF answersToAll
  <2>7. CASE c \in TcpClients
    <3>1. tcpAccepted' = tcpAccepted \cup {c} /\ c \notin tcpAccepted
      BY <2>1, <2>4, <2>7 DEF tcpAccepted
    <3>2. c \notin accepted
      BY <2>7, TcpAssumption DEF ServersInv, NetInv
    <3>3. Promise!Accept(c)
      BY <1>6, <2>1, <2>6, <3>1, <3>2 DEF Promise!Accept
    <3> QED
      BY <2>7, <3>3 DEF Promise!Next
  <2>8. CASE c \notin TcpClients
    <3>1. UNCHANGED tcpAccepted
      BY <2>1, <2>8 DEF tcpAccepted
    <3> QED
      BY <2>1, <2>6, <3>1 DEF Promise!vars
  <2> QED
    BY <2>7, <2>8
<1>7. ASSUME MuxSend, status = "up" PROVE [Promise!Next]_Promise!vars
  <2>1. /\ UNCHANGED <<accepted, answers, status, fds>>
        /\ tcp' = [tcp EXCEPT ![peer] = "answered"]
        /\ peer \in TcpClients /\ peer \in fds /\ tcp[peer] # "answered"
    BY <1>0, <1>7 DEF MuxSend, MuxInv, net
  <2>2. tcpAnswered' = tcpAnswered \cup {peer} /\ peer \notin tcpAnswered
    BY <1>0, <2>1 DEF tcpAnswered, MuxInv, Callers
  <2>3. peer \notin Clients
    BY <2>1, TcpAssumption
  <2>4. answersToAll' = [answersToAll EXCEPT ![peer] = 1] /\ answersToAll[peer] = 0
    BY <2>1, <2>2, <2>3 DEF answersToAll
  <2>5. UNCHANGED tcpAccepted /\ peer \in tcpAccepted
    BY <2>1 DEF tcpAccepted
  <2>6. Promise!Answer(peer)
    BY <1>7, <2>1, <2>4, <2>5 DEF Promise!Answer
  <2> QED
    BY <2>1, <2>6 DEF Promise!Next
<1> QED
  BY <1>1, <1>2, <1>3, <1>4, <1>5, <1>6, <1>7 DEF MuxNext, MuxServer

LEMMA PromiseStep ==
    ASSUME ServersInv, [Next]_vars PROVE [Promise!Next]_Promise!vars
<1>1. CASE UNCHANGED vars
  <2>1. UNCHANGED Promise!vars
    BY <1>1, PromiseIdle DEF vars, net, muxVars
  <2> QED
    BY <2>1
<1>2. CASE UdpClient
  <2>1. UNCHANGED <<accepted, answers, status, fds, tcp>>
    BY <1>2, NetClient DEF UdpClient, Others, muxVars, ServersInv
  <2>2. UNCHANGED Promise!vars
    BY <2>1, PromiseIdle
  <2> QED
    BY <2>2
<1>3. CASE ParallelStep
  BY <1>3, TprPromise DEF ParallelStep, Runs, Others
<1>4. CASE BufferStep
  BY <1>4, SlotPromise DEF BufferStep, Runs, Others
<1>5. CASE ConsumerStep
  BY <1>5, PillPromise DEF ConsumerStep, Runs, Others
<1>6. CASE MultiplexedStep
  BY <1>6, MuxPromise DEF MultiplexedStep, Runs, Others
<1> QED
  BY <1>1, <1>2, <1>3, <1>4, <1>5, <1>6 DEF Next

(* Whichever server runs, to the clients of both sockets it does nothing   *)
(* that TimeService does not promise.                                      *)
THEOREM ServersImplementService == Spec => ImplementsService
<1>1. ServersInv /\ [Next]_vars => ServersInv'
  BY ServersStep
<1>2. ServersInv /\ [Next]_vars => [Promise!Next]_Promise!vars
  BY PromiseStep
<1> QED
  BY ServersStart, PromiseInit, <1>1, <1>2, PTL
  DEF Spec, ImplementsService, Promise!Spec
=============================================================================
