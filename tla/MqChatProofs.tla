---------------------------- MODULE MqChatProofs ----------------------------
(***************************************************************************)
(* What holds of MqChat for every set of clients, every capacity of the    *)
(* queue and every number of lines.                                        *)
(***************************************************************************)
EXTENDS MqChat, TLAPS, SequenceTheorems, FiniteSetTheorems,
        WellFoundedInduction

-----------------------------------------------------------------------------
(* Lemmas about the queue and the table.                                   *)

USE DEF DataAdd

LEMMA SendType ==
    ASSUME queue \in [MTypes -> Seq(Message)],
           NEW t \in MTypes, NEW m \in Message, Send(t, m)
    PROVE  queue' \in [MTypes -> Seq(Message)]
  BY AppendProperties DEF Send

LEMMA ClientSendType ==
    ASSUME queue \in [MTypes -> Seq(Message)],
           NEW t \in MTypes, NEW m \in Message, ClientSend(t, m)
    PROVE  queue' \in [MTypes -> Seq(Message)]
  BY SendType DEF ClientSend

LEMMA ReceiveType ==
    ASSUME queue \in [MTypes -> Seq(Message)], NEW t \in MTypes, Receive(t)
    PROVE  /\ queue' \in [MTypes -> Seq(Message)]
           /\ Head(queue[t]) \in Message
  BY HeadTailProperties DEF Receive

LEMMA MessageType ==
    ASSUME NEW c \in Clients, NEW n \in Nat
    PROVE  /\ Join(c) \in Message /\ Leave(c) \in Message
           /\ Exit(c) \in Message /\ Quit(c) \in Message
           /\ Line(c, n) \in Message
  BY DEF Join, Leave, Exit, Quit, Line, Message

(* SetOffline keeps the length, the pids, and every mark but one.          *)
LEMMA SetOfflineType ==
    ASSUME NEW S, NEW table \in Seq(Entry(S)), NEW id
    PROVE  /\ SetOffline(table, id) \in Seq(Entry(S))
           /\ Len(SetOffline(table, id)) = Len(table)
           /\ \A i \in 1..Len(table) : SetOffline(table, id)[i].id = table[i].id
  <1> DEFINE k == DataFind(table, id)
             new == [table EXCEPT ![k].online = FALSE]
  <1>1. table \in [1..Len(table) -> Entry(S)]
    OBVIOUS
  <1>2. new \in [1..Len(table) -> Entry(S)]
    BY <1>1 DEF Entry
  <1>3. new \in Seq(Entry(S)) /\ Len(new) = Len(table)
    BY <1>2, LenProperties, SeqDef
  <1>4. \A i \in 1..Len(table) : new[i].id = table[i].id
    BY <1>1 DEF Entry
  <1> QED
    BY <1>3, <1>4 DEF SetOffline

-----------------------------------------------------------------------------
(* Type correctness.  It rests on what the server's threads hold in their  *)
(* local message while they use it.                                        *)

Held ==
    /\ memPc \in {"lock", "share", "add", "cast"} => memMsg \in Message
    /\ memPc \in {"share", "add"} => memMsg.kind = "join"
    /\ msgPc \in {"cast", "add"} => msgMsg \in Lines

TypeInv == TypeOK /\ Held

LEMMA MTypesHas == 1 \in MTypes /\ 2 \in MTypes /\ Clients \subseteq MTypes
  BY DEF MTypes

LEMMA MemberId ==
    ASSUME members \in Seq(Entry(Clients)), NEW i \in DOMAIN members
    PROVE  members[i].id \in Clients
  <1>1. members[i] \in Entry(Clients)
    BY ElementOfSeq, LenProperties
  <1> QED
    BY <1>1 DEF Entry

LEMMA MembersHandlerType ==
    ASSUME TypeInv, MembersHandler PROVE TypeInv'
  <1> USE MTypesHas
      DEF TypeInv, TypeOK, Held, server, memVars, msgVars, client, history
  <1>1. CASE MemReceive
    BY <1>1, ReceiveType DEF MemReceive
  <1>2. CASE MemLeave
    BY <1>2, SetOfflineType DEF MemLeave
  <1>3. CASE MemJoin
    BY <1>3, LenProperties DEF MemJoin, Message
  <1>4. CASE MemShareMember
    <2>1. memMsg.from \in Clients /\ members[memI].id \in Clients
      BY <1>4, MemberId DEF MemShareMember, Message
    <2>2. queue' \in [MTypes -> Seq(Message)]
      BY <1>4, <2>1, SendType, MessageType DEF MemShareMember
    <2> QED
      BY <1>4, <2>2 DEF MemShareMember
  <1>5. CASE MemShareLine
    <2>1. /\ memMsg.from \in Clients
          /\ messages[memI - Len(members)] \in Message
      BY <1>5, ElementOfSeq DEF MemShareLine, Lines, Message
    <2>2. queue' \in [MTypes -> Seq(Message)]
      BY <1>5, <2>1, SendType DEF MemShareLine
    <2> QED
      BY <1>5, <2>2 DEF MemShareLine
  <1>6. CASE MemShareEnd
    BY <1>6 DEF MemShareEnd
  <1>7. CASE MemAdd
    <2>1. memMsg.from \in Clients
      BY <1>7 DEF MemAdd, Message
    <2>2. members' \in Seq(Entry(Clients))
      BY <1>7, <2>1, AppendProperties DEF MemAdd, Entry
    <2>3. Len(Taken) \in Nat
      BY ConcatProperties, EmptySeq, LenProperties DEF Taken
    <2>4. joined' \in [Clients -> Nat \cup {NotYet}]
      BY <1>7, <2>1, <2>3 DEF MemAdd
    <2>5. online' \in Int /\ memI' \in Nat
      BY <1>7 DEF MemAdd
    <2>6. Held'
      BY <1>7 DEF MemAdd
    <2>7. TypeOK'
      BY <1>7, <2>2, <2>4, <2>5 DEF MemAdd
    <2> QED
      BY <2>6, <2>7
  <1>8. CASE MemCast
    <2>1. members[memI].id \in Clients
      BY <1>8, MemberId DEF MemCast
    <2>2. queue' \in [MTypes -> Seq(Message)]
      BY <1>8, <2>1, SendType DEF MemCast
    <2> QED
      BY <1>8, <2>2 DEF MemCast
  <1>9. CASE MemCheck
    BY <1>9 DEF MemCheck
  <1>10. CASE MemReset
    BY <1>10 DEF MemReset
  <1>11. CASE MemFlag
    BY <1>11 DEF MemFlag
  <1> QED
    BY <1>1, <1>2, <1>3, <1>4, <1>5, <1>6, <1>7, <1>8, <1>9, <1>10, <1>11
       DEF MembersHandler

LEMMA MessageHandlerType ==
    ASSUME TypeInv, MessageHandler PROVE TypeInv'
  <1> USE MTypesHas
      DEF TypeInv, TypeOK, Held, server, memVars, msgVars, client, history
  <1>1. CASE MsgTest
    BY <1>1 DEF MsgTest
  <1>2. CASE MsgReceive
    BY <1>2, ReceiveType DEF MsgReceive, IsLine, Lines
  <1>3. CASE MsgQuit
    BY <1>3 DEF MsgQuit
  <1>4. CASE MsgCast
    <2>1. members[msgI].id \in Clients /\ msgMsg \in Message
      BY <1>4, MemberId DEF MsgCast, Lines
    <2>2. queue' \in [MTypes -> Seq(Message)]
      BY <1>4, <2>1, SendType DEF MsgCast
    <2> QED
      BY <1>4, <2>2 DEF MsgCast
  <1>5. CASE MsgCastEnd
    BY <1>5 DEF MsgCastEnd
  <1>6. CASE MsgAdd
    BY <1>6, AppendProperties DEF MsgAdd
  <1> QED
    BY <1>1, <1>2, <1>3, <1>4, <1>5, <1>6 DEF MessageHandler

(* What a step of a client may change, and what it leaves alone.           *)
ClientTyped ==
    /\ queue \in [MTypes -> Seq(Message)]
    /\ mainPc \in [Clients -> {"boot", "ui", "line", "exit", "join", "leave",
                               "quit", "done", "crashed"}]
    /\ rcvPc \in [Clients -> {"off", "test", "recv", "done", "crashed"}]
    /\ leaving \in [Clients -> BOOLEAN]
    /\ typed \in [Clients -> Nat]
    /\ view \in [Clients -> Seq(Entry(Clients))]
    /\ lines \in [Clients -> Seq(Lines)]
    /\ left \subseteq Clients

ClientLeaves == UNCHANGED <<removed, server, memVars, msgVars, history>>

LEMMA ClientKeepsType ==
    ASSUME TypeInv, ClientLeaves, ClientTyped' PROVE TypeInv'
  <1>1. /\ UNCHANGED <<removed, members, online, messages, exitFlag, mutex>>
        /\ UNCHANGED <<memPc, memMsg, memI, msgPc, msgMsg, msgI>>
        /\ UNCHANGED <<asked, joined>>
    BY DEF ClientLeaves, server, memVars, msgVars, history
  <1>2. Held'
    BY <1>1 DEF TypeInv, Held
  <1>3. TypeOK'
    BY <1>1 DEF TypeInv, TypeOK, ClientTyped
  <1> QED
    BY <1>2, <1>3 DEF TypeInv

(* The user and the main thread.                                           *)
LEMMA MainType ==
    ASSUME ClientTyped, NEW c \in Clients, UserActs(c) \/ MainRuns(c)
    PROVE  ClientTyped' /\ ClientLeaves
  <1> USE MTypesHas DEF ClientTyped, ClientLeaves, Goto, Dies
  <1>1. CASE Boot(c)
    BY <1>1, ClientSendType, MessageType DEF Boot
  <1>2. CASE TypeLine(c)
    BY <1>2 DEF TypeLine
  <1>3. CASE SendLine(c)
    BY <1>3, ClientSendType, MessageType DEF SendLine
  <1>4. CASE TypeExit(c)
    BY <1>4 DEF TypeExit
  <1>5. CASE SendExit(c)
    BY <1>5, ClientSendType, MessageType DEF SendExit
  <1>6. CASE JoinThreads(c)
    BY <1>6 DEF JoinThreads
  <1>7. CASE JoinFaults(c)
    BY <1>7 DEF JoinFaults
  <1>8. CASE Killed(c)
    BY <1>8 DEF Killed
  <1>9. CASE SendLeave(c)
    BY <1>9, ClientSendType, MessageType DEF SendLeave
  <1>10. CASE SendQuit(c)
    BY <1>10, ClientSendType, MessageType DEF SendQuit
  <1> QED
    BY <1>1, <1>2, <1>3, <1>4, <1>5, <1>6, <1>7, <1>8, <1>9, <1>10
       DEF UserActs, MainRuns

(* The receiving thread.                                                   *)
LEMMA ReceiverType ==
    ASSUME ClientTyped, NEW c \in Clients, Receiver(c)
    PROVE  ClientTyped' /\ ClientLeaves
  <1> USE MTypesHas DEF ClientTyped, ClientLeaves, Dies
  <1>1. CASE RcvTest(c)
    BY <1>1 DEF RcvTest
  <1>2. CASE RcvNothing(c)
    BY <1>2 DEF RcvNothing
  <1>3. CASE RcvJoin(c)
    <2>1. Head(queue[c]).from \in Clients /\ queue' \in [MTypes -> Seq(Message)]
      BY <1>3, ReceiveType DEF RcvJoin, Message
    <2>2. view' \in [Clients -> Seq(Entry(Clients))]
      BY <1>3, <2>1, AppendProperties DEF RcvJoin, Entry
    <2> QED
      BY <1>3, <2>1, <2>2 DEF RcvJoin
  <1>4. CASE RcvLeave(c)
    <2>1. queue' \in [MTypes -> Seq(Message)]
      BY <1>4, ReceiveType DEF RcvLeave
    <2>2. view' \in [Clients -> Seq(Entry(Clients))]
      BY <1>4, SetOfflineType DEF RcvLeave
    <2> QED
      BY <1>4, <2>1, <2>2 DEF RcvLeave
  <1>5. CASE RcvLine(c)
    <2>1. Head(queue[c]) \in Lines /\ queue' \in [MTypes -> Seq(Message)]
      BY <1>5, ReceiveType DEF RcvLine, Lines, IsLine
    <2>2. lines' \in [Clients -> Seq(Lines)]
      BY <1>5, <2>1, AppendProperties DEF RcvLine
    <2> QED
      BY <1>5, <2>1, <2>2 DEF RcvLine
  <1>6. CASE RcvExit(c)
    BY <1>6, ReceiveType DEF RcvExit
  <1> QED
    BY <1>1, <1>2, <1>3, <1>4, <1>5, <1>6 DEF Receiver

LEMMA ClientType ==
    ASSUME TypeInv, NEW c \in Clients,
           UserActs(c) \/ MainRuns(c) \/ Receiver(c)
    PROVE  TypeInv'
  <1>1. ClientTyped
    BY DEF TypeInv, TypeOK, ClientTyped
  <1> QED
    BY <1>1, MainType, ReceiverType, ClientKeepsType

LEMMA InitType == Init => TypeInv
  <1> SUFFICES ASSUME Init PROVE TypeInv
    OBVIOUS
  <1>1. /\ queue \in [MTypes -> Seq(Message)]
        /\ members \in Seq(Entry(Clients))
        /\ messages \in Seq(Lines)
        /\ view \in [Clients -> Seq(Entry(Clients))]
        /\ lines \in [Clients -> Seq(Lines)]
    BY EmptySeq DEF Init
  <1>2. /\ mainPc \in [Clients -> {"boot", "ui", "line", "exit", "join",
                                   "leave", "quit", "done", "crashed"}]
        /\ rcvPc \in [Clients -> {"off", "test", "recv", "done", "crashed"}]
        /\ leaving \in [Clients -> BOOLEAN]
        /\ typed \in [Clients -> Nat]
        /\ left \subseteq Clients
        /\ asked \in [Clients -> Nat \cup {NotYet}]
        /\ joined \in [Clients -> Nat \cup {NotYet}]
    BY DEF Init
  <1>3. Held
    BY DEF Init, Held
  <1>4. /\ removed = FALSE /\ exitFlag = FALSE
        /\ online = 0 /\ memI = 1 /\ msgI = 1
        /\ mutex = "free" /\ memPc = "recv" /\ msgPc = "test"
        /\ memMsg = NoMsg /\ msgMsg = NoMsg
    BY ZenonT(20) DEF Init
  <1>5. online \in Int /\ memI \in Nat /\ msgI \in Nat
    BY <1>4
  <1>6. TypeOK
    BY <1>1, <1>2, <1>4, <1>5, ZenonT(20) DEF TypeOK
  <1> QED
    BY <1>3, <1>6 DEF TypeInv

LEMMA TypeStep == TypeInv /\ [Next]_vars => TypeInv'
  <1> SUFFICES ASSUME TypeInv, [Next]_vars PROVE TypeInv'
    OBVIOUS
  <1>1. CASE ServerEnd
    BY <1>1, EmptySeq DEF ServerEnd, TypeInv, TypeOK, Held, server, memVars,
       msgVars, client, history
  <1>2. CASE UNCHANGED vars
    BY <1>2 DEF vars, TypeInv, TypeOK, Held, server, memVars, msgVars,
       client, history
  <1> QED
    BY <1>1, <1>2, MembersHandlerType, MessageHandlerType, ClientType
       DEF Next

LEMMA TypeInvariant == Spec => []TypeInv
  BY InitType, TypeStep, PTL DEF Spec

(* Every variable keeps its type, whatever the order of the threads and of *)
(* the clients' messages; in particular the server keeps only lines.       *)
THEOREM TypeCorrect == Spec => []TypeOK
  <1>1. TypeInv => TypeOK
    BY DEF TypeInv
  <1> QED
    BY <1>1, TypeInvariant, PTL

-----------------------------------------------------------------------------
(* Where a client stands with the server: MembershipInv is inductive.      *)

(* A send to a mailbox or to the message thread is not seen by the members *)
(* thread.                                                                 *)
LEMMA SendElsewhere ==
    ASSUME queue \in [MTypes -> Seq(Message)],
           NEW t \in MTypes \ {1}, NEW m, Send(t, m) \/ ClientSend(t, m)
    PROVE  queue'[1] = queue[1]
  BY MTypesHas DEF Send, ClientSend

LEMMA ReceiveElsewhere ==
    ASSUME queue \in [MTypes -> Seq(Message)], NEW t \in MTypes \ {1},
           Receive(t)
    PROVE  queue'[1] = queue[1]
  BY MTypesHas DEF Receive

LEMMA WaitingType ==
    ASSUME queue \in [MTypes -> Seq(Message)]
    PROVE  /\ queue[1] \in Seq(Message)
           /\ \A i \in DOMAIN queue[1] : queue[1][i].from \in Clients
  <1>1. queue[1] \in Seq(Message)
    BY MTypesHas
  <1>2. \A i \in DOMAIN queue[1] : queue[1][i] \in Message
    BY <1>1, ElementOfSeq, LenProperties
  <1> QED
    BY <1>1, <1>2 DEF Message

LEMMA ClientIsMailbox == Clients \subseteq MTypes \ {1}
  BY ClientsAssumption DEF MTypes

(* What a step must leave alone to keep MembershipInv.                     *)
Calm ==
    /\ queue'[1] = queue[1] /\ UNCHANGED <<members, joined, removed>>
    /\ Serving' => Serving
    /\ memPc' \in {"lock", "share", "add"} =>
            memPc \in {"lock", "share", "add"} /\ memMsg' = memMsg
    /\ memPc \in {"lock", "share", "add"} => memPc' \in {"lock", "share", "add"}
    /\ \A c \in Clients :
        /\ HasLeft(c) => HasLeft(c)'
        /\ MayLeave(c)' => MayLeave(c)
        /\ mainPc'[c] = "boot" => mainPc[c] = "boot"

LEMMA CalmKeeps ==
    ASSUME TypeInv, TypeInv', MembershipInv, Calm PROVE MembershipInv'
  <1> SUFFICES ASSUME Serving' PROVE MembershipInv'
    BY DEF MembershipInv
  <1>1. Serving /\ ~removed /\ TableOK /\ JoinOnce /\ LeaveAfterJoin /\ Known
    BY DEF Calm, MembershipInv
  <1>2. members' = members /\ queue'[1] = queue[1] /\ removed' = removed
    BY DEF Calm
  <1>3. \A kind, c : /\ Handling(kind, c)' <=> Handling(kind, c)
                     /\ Waiting(kind, c)' <=> Waiting(kind, c)
    BY DEF Calm, Handling, Waiting, About
  <1>4. \A c : /\ Present(c)' <=> Present(c)
               /\ Holds(members, c)' <=> Holds(members, c)
    BY <1>2 DEF Present, Holds, Online
  <1>5. /\ queue[1] \in Seq(Message)
        /\ \A i \in DOMAIN queue[1] : queue[1][i].from \in Clients
        /\ \A i \in DOMAIN members : members[i].id \in Clients
    BY MemberId, WaitingType DEF TypeInv, TypeOK
  <1>6. TableOK'
    BY <1>1, <1>2, <1>5 DEF TableOK, Calm
  <1>7. JoinOnce'
    BY <1>1, <1>2 DEF JoinOnce, Handling, About, Calm
  <1>8. LeaveAfterJoin'
    BY <1>1, <1>2, <1>3, <1>4, <1>5 DEF LeaveAfterJoin, Calm, About
  <1>9. Known'
    BY <1>1, <1>3, <1>4 DEF Known, Calm
  <1> QED
    BY <1>1, <1>2, <1>6, <1>7, <1>8, <1>9 DEF MembershipInv

LEMMA ReceiveKeeps ==
    ASSUME TypeInv, MembershipInv, MemReceive PROVE MembershipInv'
  <1> DEFINE q == queue[1]
  <1>1. Serving /\ ~removed /\ TableOK /\ JoinOnce /\ LeaveAfterJoin /\ Known
    BY DEF MemReceive, Serving, MembershipInv
  <1>2. /\ q \in Seq(Message) /\ Len(q) \in Nat /\ Len(q) >= 1
        /\ DOMAIN q = 1..Len(q)
        /\ \A i \in DOMAIN q : q[i].from \in Clients
    BY WaitingType, LenProperties, EmptySeq DEF TypeInv, TypeOK, MemReceive, Receive
  <1>3. /\ DOMAIN queue'[1] = 1..(Len(q) - 1)
        /\ \A i \in 1..(Len(q) - 1) : queue'[1][i] = q[i + 1]
    BY <1>2, MTypesHas, HeadTailProperties
       DEF MemReceive, Receive, TypeInv, TypeOK
  <1>4. /\ memMsg' = q[1] /\ memPc' = "lock" /\ memPc = "recv"
        /\ UNCHANGED <<members, mainPc, left, joined, removed>>
    BY <1>2 DEF MemReceive, server, client, history
  <1>5. TableOK'
    BY <1>1, <1>4 DEF TableOK, HasLeft
  <1>6. JoinOnce'
    <2>1. ASSUME NEW i \in DOMAIN queue'[1], queue'[1][i].kind = "join",
                 NEW c, c = queue'[1][i].from
          PROVE  /\ ~About(memMsg', "join", c) /\ ~Holds(members, c)
                 /\ \A j \in DOMAIN queue'[1] :
                        About(queue'[1][j], "join", c) => i = j
      <3>1. i + 1 \in DOMAIN q /\ q[i + 1] = queue'[1][i]
        BY <1>2, <1>3
      <3>2. /\ ~Holds(members, c)
            /\ \A j \in DOMAIN q : About(q[j], "join", c) => i + 1 = j
        BY <1>1, <2>1, <3>1 DEF JoinOnce
      <3>3. ~About(q[1], "join", c)
        BY <1>2, <1>3, <3>2
      <3>4. ASSUME NEW j \in DOMAIN queue'[1], About(queue'[1][j], "join", c)
            PROVE  i = j
        <4>1. j + 1 \in DOMAIN q /\ q[j + 1] = queue'[1][j]
          BY <1>2, <1>3
        <4> QED
          BY <1>2, <1>3, <3>2, <3>4, <4>1
      <3> QED
        BY <1>4, <3>2, <3>3, <3>4
    <2>2. ASSUME NEW c \in Clients, About(q[1], "join", c)
          PROVE  ~Holds(members, c)
      BY <1>1, <1>2, <2>2 DEF JoinOnce, About
    <2> QED
      BY <1>4, <2>1, <2>2 DEF JoinOnce, Handling
  <1>7. LeaveAfterJoin'
    <2>1. ASSUME NEW k \in DOMAIN queue'[1], queue'[1][k].kind = "leave",
                 NEW c, c = queue'[1][k].from
          PROVE  /\ HasLeft(c)'
                 /\ \/ \E i \in 1..(k-1) : About(queue'[1][i], "join", c)
                    \/ About(memMsg', "join", c)
                    \/ Present(c)'
                 /\ \A j \in DOMAIN queue'[1] :
                        About(queue'[1][j], "leave", c) => j = k
      <3>1. k + 1 \in DOMAIN q /\ q[k+1] = queue'[1][k]
        BY <1>2, <1>3, <2>1
      <3>2. /\ HasLeft(c)
            /\ \/ \E i \in 1..k : About(q[i], "join", c)
               \/ Present(c)
            /\ \A j \in DOMAIN q : About(q[j], "leave", c) => j = k + 1
        BY <1>1, <1>2, <1>3, <1>4, <2>1, <3>1 DEF LeaveAfterJoin, Handling
      <3>3. HasLeft(c)' /\ (Present(c) => Present(c)')
        BY <1>4, <3>2 DEF HasLeft, Present, Online
      <3>4. ASSUME NEW i \in 1..k, About(q[i], "join", c)
            PROVE  \/ \E h \in 1..(k-1) : About(queue'[1][h], "join", c)
                   \/ About(memMsg', "join", c)
        <4>1. CASE i = 1
          BY <4>1, <3>4, <1>4
        <4>2. CASE i # 1
          <5>1. i - 1 \in 1..(k-1) /\ queue'[1][i - 1] = q[i]
            BY <4>2, <1>2, <1>3, <2>1
          <5> QED
            BY <5>1, <3>4
        <4> QED
          BY <4>1, <4>2
      <3>5. ASSUME NEW j \in DOMAIN queue'[1], About(queue'[1][j], "leave", c)
            PROVE  j = k
        <4>1. j + 1 \in DOMAIN q /\ q[j + 1] = queue'[1][j]
          BY <1>2, <1>3
        <4>2. j + 1 = k + 1
          BY <3>2, <3>5, <4>1
        <4> QED
          BY <1>2, <1>3, <4>2
      <3> QED
        BY <3>2, <3>3, <3>4, <3>5
    <2>2. ASSUME NEW c \in Clients, About(q[1], "leave", c)
          PROVE  HasLeft(c)' /\ Present(c)' /\ ~Waiting("leave", c)'
      <3>1. 1 \in DOMAIN q /\ q[1].kind = "leave" /\ c = q[1].from
        BY <1>2, <2>2 DEF About
      <3>2. /\ HasLeft(c) /\ Present(c)
            /\ \A j \in DOMAIN q : About(q[j], "leave", c) => j = 1
        BY <1>1, <1>2, <1>4, <3>1 DEF LeaveAfterJoin, Handling
      <3>3. ~Waiting("leave", c)'
        <4>1. ASSUME NEW j \in DOMAIN queue'[1], About(queue'[1][j], "leave", c)
              PROVE  FALSE
          <5>1. j + 1 \in DOMAIN q /\ q[j + 1] = queue'[1][j] /\ j + 1 # 1
            BY <1>2, <1>3
          <5> QED
            BY <4>1, <5>1, <3>2
        <4> QED
          BY <4>1 DEF Waiting
      <3> QED
        BY <1>4, <3>2, <3>3 DEF HasLeft, Present, Online
    <2> QED
      BY <1>4, <2>1, <2>2 DEF LeaveAfterJoin, Handling
  <1>8. Known'
    <2>1. ASSUME NEW c \in Clients, Waiting("join", c)
          PROVE  Waiting("join", c)' \/ Handling("join", c)'
      <3>1. PICK i \in DOMAIN q : About(q[i], "join", c)
        BY <2>1 DEF Waiting
      <3>2. CASE i = 1
        BY <1>4, <3>1, <3>2 DEF Handling, About
      <3>3. CASE i # 1
        <4>1. i - 1 \in DOMAIN queue'[1] /\ queue'[1][i - 1] = q[i]
          BY <1>2, <1>3, <3>3
        <4> QED
          BY <3>1, <4>1 DEF Waiting
      <3> QED
        BY <3>2, <3>3
    <2>2. ASSUME NEW c \in Clients, mainPc[c] = "boot"
          PROVE  ~Waiting("join", c)' /\ ~Handling("join", c)'
      <3>1. \A i \in DOMAIN q : ~About(q[i], "join", c)
        BY <1>1, <2>2 DEF Known, Waiting
      <3>2. ~Waiting("join", c)'
        <4>1. \A i \in DOMAIN queue'[1] : ~About(queue'[1][i], "join", c)
          BY <1>2, <1>3, <3>1
        <4> QED
          BY <4>1 DEF Waiting
      <3>3. ~Handling("join", c)'
        BY <1>2, <1>4, <3>1 DEF Handling, About
      <3> QED
        BY <3>2, <3>3
    <2> QED
      BY <1>1, <1>4, <2>1, <2>2
         DEF Known, MayLeave, Handling, Present, Online
  <1> QED
    BY <1>1, <1>4, <1>5, <1>6, <1>7, <1>8 DEF MembershipInv

Distinct(table) ==
    \A i, j \in DOMAIN table : table[i].id = table[j].id => i = j

(* In a table without double entries SetOffline marks the one entry of id. *)
LEMMA SetOfflineMarks ==
    ASSUME NEW S, NEW table \in Seq(Entry(S)), Distinct(table),
           NEW k \in DOMAIN table
    PROVE  LET new == SetOffline(table, table[k].id) IN
           /\ ~new[k].online /\ new[k].id = table[k].id
           /\ \A i \in DOMAIN table : i # k => new[i] = table[i]
           /\ DOMAIN new = DOMAIN table
           /\ Online(new) = Online(table) \ {k}
  <1> DEFINE id == table[k].id
             new == [table EXCEPT ![k].online = FALSE]
  <1>1. table \in [DOMAIN table -> Entry(S)]
    BY LenProperties
  <1>2. DOMAIN table = 1..Len(table) /\ Len(table) \in Nat
    BY LenProperties
  <1>3. \A j \in 1..(k-1) : table[j].id # id
    BY <1>2 DEF Distinct
  <1>4. \A i \in DOMAIN table : table[i].id = id => i = k
    BY DEF Distinct
  <1>5. DataFind(table, id) = k
    BY <1>3, <1>4 DEF DataFind, Holds
  <1>6. SetOffline(table, id) = new
    BY <1>5 DEF SetOffline, Holds
  <1>7. /\ ~new[k].online /\ new[k].id = id /\ DOMAIN new = DOMAIN table
        /\ \A i \in DOMAIN table : i # k => new[i] = table[i]
    BY <1>1 DEF Entry
  <1>8. Online(new) = Online(table) \ {k}
    BY <1>7 DEF Online
  <1> QED
    BY <1>6, <1>7, <1>8

LEMMA LeaveKeeps ==
    ASSUME TypeInv, MembershipInv, MemLeave PROVE MembershipInv'
  <1> DEFINE c0 == memMsg.from
  <1>1. Serving /\ ~removed /\ TableOK /\ JoinOnce /\ LeaveAfterJoin /\ Known
    BY DEF MemLeave, Serving, MembershipInv
  <1>2. /\ memPc = "lock" /\ memPc' = "cast" /\ memMsg.kind = "leave"
        /\ members' = SetOffline(members, c0)
        /\ UNCHANGED <<queue, mainPc, left, joined, removed>>
    BY DEF MemLeave, client, history
  <1>3. c0 \in Clients /\ Handling("leave", c0)
    BY <1>2 DEF TypeInv, Held, Message, Handling, About
  <1>4. HasLeft(c0) /\ ~Waiting("leave", c0)
    BY <1>1, <1>3 DEF LeaveAfterJoin
  <1>5. PICK k \in DOMAIN members : members[k].id = c0
    BY <1>1, <1>3 DEF LeaveAfterJoin, Present, Online
  <1>6. /\ DOMAIN members' = DOMAIN members
        /\ members'[k].id = c0
        /\ \A i \in DOMAIN members : i # k => members'[i] = members[i]
    <2>1. members \in Seq(Entry(Clients)) /\ Distinct(members)
      BY <1>1 DEF TableOK, Distinct, TypeInv, TypeOK
    <2> QED
      BY <1>2, <1>5, <2>1, SetOfflineMarks
  <1>7. \A i \in DOMAIN members : members'[i].id = members[i].id
    BY <1>5, <1>6
  <1>8. \A c : Holds(members', c) <=> Holds(members, c)
    BY <1>6, <1>7 DEF Holds
  <1>9. \A c : c # c0 /\ Present(c) => Present(c)'
    BY <1>5, <1>6 DEF Present, Online
  <1>10. \A c \in Clients : ~Handling("join", c)
    BY <1>2 DEF Handling, About
  <1>11. TableOK'
    BY <1>1, <1>2, <1>4, <1>6, <1>7 DEF TableOK, HasLeft
  <1>12. JoinOnce'
    BY <1>1, <1>2, <1>8 DEF JoinOnce, Handling
  <1>13. LeaveAfterJoin'
    <2>1. ASSUME NEW i \in DOMAIN queue[1], queue[1][i].kind = "leave"
          PROVE  queue[1][i].from # c0
      BY <1>4, <2>1 DEF Waiting, About
    <2>2. \A c : ~Handling("join", c)
      BY <1>2 DEF Handling, About
    <2> QED
      BY <1>1, <1>2, <1>9, <2>1, <2>2 DEF LeaveAfterJoin, Handling, HasLeft
  <1>14. Known'
    <2>1. ~MayLeave(c0)
      BY <1>4 DEF HasLeft, MayLeave
    <2> QED
      BY <1>1, <1>2, <1>8, <1>9, <1>10, <2>1
         DEF Known, MayLeave, Waiting, Handling
  <1> QED
    BY <1>1, <1>2, <1>11, <1>12, <1>13, <1>14 DEF MembershipInv

LEMMA AddKeeps ==
    ASSUME TypeInv, MembershipInv, MemAdd PROVE MembershipInv'
  <1> DEFINE n == Len(members) + 1
  <1>0. PICK c0 \in Clients : c0 = memMsg.from
    BY DEF MemAdd, TypeInv, Held, Message
  <1>1. Serving /\ ~removed /\ TableOK /\ JoinOnce /\ LeaveAfterJoin /\ Known
    BY DEF MemAdd, Serving, MembershipInv
  <1>2. /\ memPc = "add" /\ memPc' = "cast"
        /\ members' = Append(members, [id |-> c0, online |-> TRUE])
        /\ joined' = [joined EXCEPT ![c0] = Len(Taken)]
        /\ UNCHANGED <<queue, mainPc, left, removed>>
    BY <1>0 DEF MemAdd, client
  <1>3. c0 \in Clients /\ memMsg.kind = "join"
    BY <1>0, <1>2 DEF TypeInv, Held, Message
  <1>4. Handling("join", c0) /\ ~Holds(members, c0)
    BY <1>0, <1>1, <1>2, <1>3 DEF Handling, About, JoinOnce
  <1>5. /\ Len(members) \in Nat /\ DOMAIN members = 1..Len(members)
        /\ DOMAIN members' = 1..n
        /\ members'[n] = [id |-> c0, online |-> TRUE]
        /\ \A i \in 1..Len(members) : members'[i] = members[i]
    <2>1. [id |-> c0, online |-> TRUE] \in Entry(Clients)
      BY <1>3 DEF Entry
    <2> QED
      BY <1>2, <2>1, AppendProperties, LenProperties DEF TypeInv, TypeOK
  <1>6. \A c : Holds(members', c) <=> Holds(members, c) \/ c = c0
    BY <1>5 DEF Holds
  <1>7. Present(c0)' /\ \A c : Present(c) => Present(c)'
    <2>1. n \in DOMAIN members' /\ members'[n].id = c0 /\ members'[n].online
      BY <1>5
    <2>2. Present(c0)'
      BY <2>1 DEF Present, Online
    <2>3. ASSUME NEW c, Present(c) PROVE Present(c)'
      <3>1. PICK i \in DOMAIN members : members[i].online /\ members[i].id = c
        BY <2>3 DEF Present, Online
      <3>2. i \in DOMAIN members' /\ members'[i] = members[i]
        BY <1>5
      <3> QED
        BY <3>1, <3>2 DEF Present, Online
    <2> QED
      BY <2>2, <2>3
  <1>13. \A kind, c : ~Handling(kind, c)'
    BY <1>2 DEF Handling
  <1>8. \A kind, c : Handling(kind, c) => c = c0
    BY <1>0 DEF Handling, About
  <1>9. TableOK'
    BY <1>1, <1>2, <1>4, <1>5 DEF TableOK, Holds, HasLeft
  <1>10. JoinOnce'
    <2>1. ASSUME NEW i \in DOMAIN queue[1], queue[1][i].kind = "join"
          PROVE  queue[1][i].from # c0
      BY <1>1, <1>4, <2>1 DEF JoinOnce
    <2> QED
      BY <1>1, <1>2, <1>6, <2>1 DEF JoinOnce, Handling
  <1>11. LeaveAfterJoin'
    <2>1. ASSUME NEW k \in DOMAIN queue[1], queue[1][k].kind = "leave",
                 NEW c, c = queue[1][k].from
          PROVE  /\ HasLeft(c)'
                 /\ \/ \E i \in 1..(k-1) : About(queue[1][i], "join", c)
                    \/ Present(c)'
                 /\ \A j \in DOMAIN queue[1] :
                        About(queue[1][j], "leave", c) => j = k
      <3>1. /\ HasLeft(c)
            /\ \/ \E i \in 1..(k-1) : About(queue[1][i], "join", c)
               \/ Handling("join", c)
               \/ Present(c)
            /\ \A j \in DOMAIN queue[1] :
                   About(queue[1][j], "leave", c) => j = k
        BY <1>1, <2>1 DEF LeaveAfterJoin
      <3> QED
        BY <1>2, <1>7, <1>8, <3>1 DEF HasLeft
    <2> QED
      BY <1>2, <1>13, <2>1 DEF LeaveAfterJoin
  <1>12. Known'
    <2>1. mainPc[c0] # "boot"
      BY <1>1, <1>3, <1>4 DEF Known
    <2>2. \A c \in Clients : c # c0 => joined'[c] = joined[c]
      BY <1>2
    <2> QED
      BY <1>1, <1>2, <1>6, <1>7, <1>8, <1>13, <2>1, <2>2
         DEF Known, MayLeave, Waiting
  <1> QED
    BY <1>1, <1>2, <1>9, <1>10, <1>11, <1>12 DEF MembershipInv

(* What a client's post to the members thread does to queue[1].            *)
LEMMA PostToMembers ==
    ASSUME queue \in [MTypes -> Seq(Message)], ~removed,
           NEW m \in Message, ClientSend(1, m)
    PROVE  /\ Len(queue[1]) \in Nat /\ DOMAIN queue[1] = 1..Len(queue[1])
           /\ DOMAIN queue'[1] = 1..(Len(queue[1]) + 1)
           /\ queue'[1][Len(queue[1]) + 1] = m
           /\ \A i \in 1..Len(queue[1]) : queue'[1][i] = queue[1][i]
  <1>1. queue[1] \in Seq(Message) /\ queue'[1] = Append(queue[1], m)
    BY MTypesHas DEF ClientSend, Send
  <1> QED
    BY <1>1, AppendProperties, LenProperties

LEMMA BootKeeps ==
    ASSUME TypeInv, MembershipInv, NEW c0 \in Clients, Boot(c0),
           Serving'
    PROVE  MembershipInv'
  <1> DEFINE n == Len(queue[1]) + 1
  <1>1. UNCHANGED <<members, online, memPc, memMsg, left, joined, removed>>
    BY DEF Boot, server, memVars, history
  <1>2. Serving /\ ~removed /\ TableOK /\ JoinOnce /\ LeaveAfterJoin /\ Known
    BY <1>1 DEF Serving, MembershipInv
  <1>3. /\ mainPc[c0] = "boot" /\ mainPc'[c0] = "ui"
        /\ \A c \in Clients : c # c0 => mainPc'[c] = mainPc[c]
    BY DEF Boot, Goto, TypeInv, TypeOK
  <1>4. /\ Len(queue[1]) \in Nat /\ DOMAIN queue[1] = 1..Len(queue[1])
        /\ DOMAIN queue'[1] = 1..n /\ queue'[1][n] = Join(c0)
        /\ \A i \in 1..Len(queue[1]) : queue'[1][i] = queue[1][i]
    BY <1>2, MessageType, PostToMembers DEF Boot, TypeInv, TypeOK
  <1>5. About(queue'[1][n], "join", c0) /\ \A c : ~About(queue'[1][n], "leave", c)
    BY <1>4 DEF Join, About
  <1>6. /\ ~Waiting("join", c0) /\ ~Handling("join", c0) /\ ~Holds(members, c0)
        /\ ~HasLeft(c0)
    BY <1>2, <1>3 DEF Known, HasLeft
  <1>7. \A c \in Clients : c # c0 => mainPc'[c] = mainPc[c]
    BY <1>3
  <1>8. /\ queue[1] \in Seq(Message)
        /\ \A i \in DOMAIN queue[1] : queue[1][i].from \in Clients
        /\ \A i \in DOMAIN members : members[i].id \in Clients
    BY MemberId, WaitingType DEF TypeInv, TypeOK
  <1>9. TableOK'
    BY <1>1, <1>2, <1>6, <1>7, <1>8 DEF TableOK, HasLeft, Holds
  <1>10. JoinOnce'
    <2>1. ASSUME NEW i \in DOMAIN queue'[1], queue'[1][i].kind = "join",
                 NEW c, c = queue'[1][i].from
          PROVE  /\ ~Handling("join", c) /\ ~Holds(members, c)
                 /\ \A j \in DOMAIN queue'[1] :
                        About(queue'[1][j], "join", c) => i = j
      <3>1. CASE i = n
        <4>1. c = c0
          BY <1>5, <2>1, <3>1 DEF About
        <4> QED
          BY <1>4, <1>6, <3>1, <4>1 DEF Waiting
      <3>2. CASE i # n
        <4>1. i \in DOMAIN queue[1] /\ queue[1][i] = queue'[1][i]
          BY <1>4, <3>2
        <4>2. c # c0
          BY <1>6, <2>1, <4>1 DEF Waiting, About
        <4>3. /\ ~Handling("join", c) /\ ~Holds(members, c)
              /\ \A j \in DOMAIN queue[1] :
                     About(queue[1][j], "join", c) => i = j
          BY <1>2, <2>1, <4>1 DEF JoinOnce
        <4>4. ASSUME NEW j \in DOMAIN queue'[1],
                     About(queue'[1][j], "join", c)
              PROVE  i = j
          <5>1. j # n
            BY <1>5, <4>2, <4>4 DEF About
          <5>2. j \in DOMAIN queue[1] /\ queue[1][j] = queue'[1][j]
            BY <1>4, <5>1
          <5> QED
            BY <4>3, <4>4, <5>2
        <4> QED
          BY <4>3, <4>4
      <3> QED
        BY <3>1, <3>2
    <2> QED
      BY <1>1, <1>2, <2>1 DEF JoinOnce, Handling
  <1>11. LeaveAfterJoin'
    <2>1. ASSUME NEW k \in DOMAIN queue'[1], queue'[1][k].kind = "leave",
                 NEW c, c = queue'[1][k].from
          PROVE  /\ HasLeft(c)'
                 /\ \/ \E i \in 1..(k-1) : About(queue'[1][i], "join", c)
                    \/ Handling("join", c)
                    \/ Present(c)
                 /\ \A j \in DOMAIN queue'[1] :
                        About(queue'[1][j], "leave", c) => j = k
      <3>1. k # n
        BY <1>5, <2>1 DEF About
      <3>2. k \in DOMAIN queue[1] /\ queue[1][k] = queue'[1][k]
        BY <1>4, <3>1
      <3>3. /\ HasLeft(c)
            /\ \/ \E i \in 1..(k-1) : About(queue[1][i], "join", c)
               \/ Handling("join", c)
               \/ Present(c)
            /\ \A j \in DOMAIN queue[1] :
                   About(queue[1][j], "leave", c) => j = k
        BY <1>2, <2>1, <3>2 DEF LeaveAfterJoin
      <3>4. c # c0 /\ c \in Clients
        BY <1>6, <1>8, <2>1, <3>2, <3>3
      <3>5. HasLeft(c)'
        BY <1>1, <1>7, <3>3, <3>4 DEF HasLeft
      <3>6. \A i \in 1..(k-1) : queue'[1][i] = queue[1][i]
        BY <1>4, <3>2
      <3> QED
        <4>1. \A j \in DOMAIN queue'[1] :
                About(queue'[1][j], "leave", c) => j = k
          BY <1>4, <1>5, <3>3
        <4>2. (\E i \in 1..(k-1) : About(queue[1][i], "join", c)) =>
                \E i \in 1..(k-1) : About(queue'[1][i], "join", c)
          BY <3>6
        <4> QED
          BY <3>3, <3>5, <4>1, <4>2
    <2>2. \A c \in Clients : Handling("leave", c) =>
            HasLeft(c)' /\ Present(c) /\ ~Waiting("leave", c)'
      <3>1. \A c \in Clients : ~Waiting("leave", c) => ~Waiting("leave", c)'
        BY <1>4, <1>5 DEF Waiting
      <3>2. \A c \in Clients : HasLeft(c) => HasLeft(c)'
        BY <1>1, <1>6, <1>7 DEF HasLeft
      <3> QED
        BY <1>2, <3>1, <3>2 DEF LeaveAfterJoin
    <2> QED
      BY <1>1, <2>1, <2>2 DEF LeaveAfterJoin, Handling, Present
  <1>12. Known'
    <2>1. Waiting("join", c0)'
      BY <1>4, <1>5 DEF Waiting
    <2>2. mainPc'[c0] = "ui"
      BY <1>3
    <2>3. \A c \in Clients : c # c0 =>
            (Waiting("join", c)' <=> Waiting("join", c))
      <3>1. ASSUME NEW c \in Clients, c # c0, Waiting("join", c)'
            PROVE  Waiting("join", c)
        <4>1. PICK i \in DOMAIN queue'[1] : About(queue'[1][i], "join", c)
          BY <3>1 DEF Waiting
        <4>2. i # n
          BY <1>5, <3>1, <4>1 DEF About
        <4>3. i \in DOMAIN queue[1] /\ queue'[1][i] = queue[1][i]
          BY <1>4, <4>2
        <4> QED
          BY <4>1, <4>3 DEF Waiting
      <3>2. ASSUME NEW c \in Clients, Waiting("join", c)
            PROVE  Waiting("join", c)'
        <4>1. PICK i \in DOMAIN queue[1] : About(queue[1][i], "join", c)
          BY <3>2 DEF Waiting
        <4>2. i \in DOMAIN queue'[1] /\ queue'[1][i] = queue[1][i]
          BY <1>4
        <4> QED
          BY <4>1, <4>2 DEF Waiting
      <3> QED
        BY <3>1, <3>2
    <2> QED
      BY <1>1, <1>2, <1>7, <2>1, <2>2, <2>3
         DEF Known, MayLeave, Handling, Present
  <1> QED
    BY <1>1, <1>2, <1>9, <1>10, <1>11, <1>12 DEF MembershipInv

LEMMA SendLeaveKeeps ==
    ASSUME TypeInv, MembershipInv, NEW c0 \in Clients, SendLeave(c0),
           Serving'
    PROVE  MembershipInv'
  <1> DEFINE n == Len(queue[1]) + 1
  <1>1. UNCHANGED <<members, online, memPc, memMsg, joined, removed>>
    BY DEF SendLeave, server, memVars, history
  <1>2. Serving /\ ~removed /\ TableOK /\ JoinOnce /\ LeaveAfterJoin /\ Known
    BY <1>1 DEF Serving, MembershipInv
  <1>3. /\ mainPc[c0] = "leave" /\ mainPc'[c0] = "quit"
        /\ \A c \in Clients : c # c0 => mainPc'[c] = mainPc[c]
        /\ left' = left \cup {c0}
    BY DEF SendLeave, Goto, TypeInv, TypeOK
  <1>4. /\ Len(queue[1]) \in Nat /\ DOMAIN queue[1] = 1..Len(queue[1])
        /\ DOMAIN queue'[1] = 1..n /\ queue'[1][n] = Leave(c0)
        /\ \A i \in 1..Len(queue[1]) : queue'[1][i] = queue[1][i]
    BY <1>2, MessageType, PostToMembers DEF SendLeave, TypeInv, TypeOK
  <1>5. /\ About(queue'[1][n], "leave", c0)
        /\ \A c : ~About(queue'[1][n], "join", c)
    BY <1>4 DEF Leave, About
  <1>6. /\ Waiting("join", c0) \/ Handling("join", c0) \/ Present(c0)
        /\ ~HasLeft(c0) /\ HasLeft(c0)'
    BY <1>2, <1>3 DEF Known, HasLeft, MayLeave
  <1>7. \A c \in Clients : c # c0 => mainPc'[c] = mainPc[c]
    BY <1>3
  <1>8. /\ queue[1] \in Seq(Message)
        /\ \A i \in DOMAIN queue[1] : queue[1][i].from \in Clients
        /\ \A i \in DOMAIN members : members[i].id \in Clients
    BY MemberId, WaitingType DEF TypeInv, TypeOK
  <1>9. ~Handling("leave", c0) /\ ~Waiting("leave", c0)
    BY <1>2, <1>6 DEF LeaveAfterJoin, Waiting, About
  <1>10. \A c \in Clients : HasLeft(c) => HasLeft(c)'
    BY <1>3, <1>6, <1>7 DEF HasLeft
  <1>11. \A c : Waiting("join", c)' <=> Waiting("join", c)
    BY <1>4, <1>5 DEF Waiting
  <1>12. TableOK'
    BY <1>1, <1>2, <1>8, <1>10 DEF TableOK
  <1>13. JoinOnce'
    <2>1. ASSUME NEW i \in DOMAIN queue'[1], queue'[1][i].kind = "join",
                 NEW c, c = queue'[1][i].from
          PROVE  /\ ~Handling("join", c) /\ ~Holds(members, c)
                 /\ \A j \in DOMAIN queue'[1] :
                        About(queue'[1][j], "join", c) => i = j
      <3>1. i # n
        BY <1>5, <2>1 DEF About
      <3>2. i \in DOMAIN queue[1] /\ queue[1][i] = queue'[1][i]
        BY <1>4, <3>1
      <3> QED
        BY <1>2, <1>4, <1>5, <2>1, <3>2 DEF JoinOnce
    <2> QED
      BY <1>1, <1>2, <2>1 DEF JoinOnce, Handling
  <1>14. LeaveAfterJoin'
    <2>1. ASSUME NEW k \in DOMAIN queue'[1], queue'[1][k].kind = "leave",
                 NEW c, c = queue'[1][k].from
          PROVE  /\ HasLeft(c)'
                 /\ \/ \E i \in 1..(k-1) : About(queue'[1][i], "join", c)
                    \/ Handling("join", c)
                    \/ Present(c)
                 /\ \A j \in DOMAIN queue'[1] :
                        About(queue'[1][j], "leave", c) => j = k
      <3>1. CASE k = n
        <4>1. c = c0
          BY <1>5, <2>1, <3>1 DEF About
        <4>2. Waiting("join", c) =>
                \E i \in 1..(k-1) : About(queue'[1][i], "join", c)
          BY <1>4, <3>1 DEF Waiting
        <4>3. \A j \in DOMAIN queue'[1] :
                 About(queue'[1][j], "leave", c) => j = k
          BY <1>4, <1>9, <3>1, <4>1 DEF Waiting
        <4> QED
          BY <1>6, <1>9, <4>1, <4>2, <4>3
      <3>2. CASE k # n
        <4>1. k \in DOMAIN queue[1] /\ queue[1][k] = queue'[1][k]
          BY <1>4, <3>2
        <4>2. /\ HasLeft(c)
              /\ \/ \E i \in 1..(k-1) : About(queue[1][i], "join", c)
                 \/ Handling("join", c)
                 \/ Present(c)
              /\ \A j \in DOMAIN queue[1] :
                     About(queue[1][j], "leave", c) => j = k
          BY <1>2, <2>1, <4>1 DEF LeaveAfterJoin
        <4>3. c # c0 /\ c \in Clients
          BY <1>6, <1>8, <2>1, <4>1, <4>2
        <4>4. HasLeft(c)' /\ ~About(queue'[1][n], "leave", c)
          BY <1>4, <1>10, <4>2, <4>3 DEF About, Leave
        <4>5. \A i \in 1..(k-1) : queue'[1][i] = queue[1][i]
          BY <1>4, <4>1
        <4> QED
          <5>1. \A j \in DOMAIN queue'[1] :
                  About(queue'[1][j], "leave", c) => j = k
            BY <1>4, <4>2, <4>4
          <5>2. (\E i \in 1..(k-1) : About(queue[1][i], "join", c)) =>
                  \E i \in 1..(k-1) : About(queue'[1][i], "join", c)
            BY <4>5
          <5> QED
            BY <4>2, <4>4, <5>1, <5>2
      <3> QED
        BY <3>1, <3>2
    <2>2. \A c \in Clients : Handling("leave", c) =>
            HasLeft(c)' /\ Present(c) /\ ~Waiting("leave", c)'
      <3>1. \A c \in Clients :
                ~Waiting("leave", c) /\ c # c0 => ~Waiting("leave", c)'
        BY <1>4 DEF Waiting, About, Leave
      <3> QED
        BY <1>2, <1>9, <1>10, <3>1 DEF LeaveAfterJoin
    <2> QED
      BY <1>1, <2>1, <2>2 DEF LeaveAfterJoin, Handling, Present
  <1>15. Known'
    <2>1. mainPc'[c0] = "quit"
      BY <1>3
    <2> QED
      BY <1>1, <1>2, <1>7, <1>11, <2>1
         DEF Known, MayLeave, Handling, Present
  <1> QED
    BY <1>1, <1>2, <1>12, <1>13, <1>14, <1>15 DEF MembershipInv

-----------------------------------------------------------------------------
(* Most steps are calm.                                                    *)

LEMMA MembersCalm ==
    ASSUME TypeInv,
           \/ MemJoin \/ MemShareMember \/ MemShareLine \/ MemShareEnd
           \/ MemCast \/ MemCheck
    PROVE  Calm
  <1> USE DEF Calm, Serving, HasLeft, MayLeave, server, client, history
  <1>1. queue \in [MTypes -> Seq(Message)] /\ members \in Seq(Entry(Clients))
    BY DEF TypeInv, TypeOK
  <1>2. CASE MemJoin
    BY <1>2 DEF MemJoin
  <1>3. CASE MemShareMember
    <2>1. memMsg.from \in MTypes \ {1}
      BY <1>3, ClientIsMailbox DEF MemShareMember, TypeInv, Held, Message
    <2>2. queue'[1] = queue[1]
      BY <1>1, <1>3, <2>1, SendElsewhere DEF MemShareMember
    <2> QED
      BY <1>3, <2>2 DEF MemShareMember
  <1>4. CASE MemShareLine
    <2>1. memMsg.from \in MTypes \ {1}
      BY <1>4, ClientIsMailbox DEF MemShareLine, TypeInv, Held, Message
    <2>2. queue'[1] = queue[1]
      BY <1>1, <1>4, <2>1, SendElsewhere DEF MemShareLine
    <2> QED
      BY <1>4, <2>2 DEF MemShareLine
  <1>5. CASE MemShareEnd
    BY <1>5 DEF MemShareEnd
  <1>6. CASE MemCast
    <2>1. members[memI].id \in MTypes \ {1}
      BY <1>1, <1>6, ClientIsMailbox, MemberId DEF MemCast
    <2>2. queue'[1] = queue[1]
      BY <1>1, <1>6, <2>1, SendElsewhere DEF MemCast
    <2> QED
      BY <1>6, <2>2 DEF MemCast
  <1>7. CASE MemCheck
    BY <1>7 DEF MemCheck
  <1> QED
    BY <1>2, <1>3, <1>4, <1>5, <1>6, <1>7

LEMMA MessagesCalm ==
    ASSUME TypeInv, MessageHandler
    PROVE  Calm /\ UNCHANGED <<online, memPc>>
  <1> USE DEF Calm, Serving, HasLeft, MayLeave, server, memVars, client, history
  <1>1. queue \in [MTypes -> Seq(Message)] /\ members \in Seq(Entry(Clients))
    BY DEF TypeInv, TypeOK
  <1>2. CASE MsgTest
    BY <1>2 DEF MsgTest
  <1>3. CASE MsgReceive
    <2>1. queue'[1] = queue[1]
      BY <1>1, <1>3, MTypesHas, ReceiveElsewhere DEF MsgReceive
    <2> QED
      BY <1>3, <2>1 DEF MsgReceive
  <1>4. CASE MsgQuit
    BY <1>4 DEF MsgQuit
  <1>5. CASE MsgCast
    <2>1. members[msgI].id \in MTypes \ {1}
      BY <1>1, <1>5, ClientIsMailbox, MemberId DEF MsgCast
    <2>2. queue'[1] = queue[1]
      BY <1>1, <1>5, <2>1, SendElsewhere DEF MsgCast
    <2> QED
      BY <1>5, <2>2 DEF MsgCast
  <1>6. CASE MsgCastEnd
    BY <1>6 DEF MsgCastEnd
  <1>7. CASE MsgAdd
    BY <1>7 DEF MsgAdd
  <1> QED
    BY <1>2, <1>3, <1>4, <1>5, <1>6, <1>7 DEF MessageHandler

LEMMA ClientCalm ==
    ASSUME TypeInv, NEW c \in Clients,
           UserActs(c) \/ MainRuns(c) \/ Receiver(c),
           ~Boot(c), ~SendLeave(c)
    PROVE  Calm /\ UNCHANGED <<online, memPc>>
  <1> USE DEF Calm, Serving, HasLeft, MayLeave, server, memVars, client,
          history, Goto, Dies
  <1>1. /\ queue \in [MTypes -> Seq(Message)]
        /\ mainPc \in [Clients -> {"boot", "ui", "line", "exit", "join",
                                   "leave", "quit", "done", "crashed"}]
    BY DEF TypeInv, TypeOK
  <1>2. c \in MTypes \ {1} /\ 2 \in MTypes \ {1}
    BY ClientIsMailbox, MTypesHas
  <1>3. CASE TypeLine(c)
    BY <1>1, <1>3 DEF TypeLine
  <1>4. CASE SendLine(c)
    <2>1. queue'[1] = queue[1]
      BY <1>1, <1>2, <1>4, SendElsewhere DEF SendLine
    <2> QED
      BY <1>1, <1>4, <2>1 DEF SendLine
  <1>5. CASE TypeExit(c)
    BY <1>1, <1>5 DEF TypeExit
  <1>6. CASE SendExit(c)
    <2>1. queue'[1] = queue[1]
      BY <1>1, <1>2, <1>6, SendElsewhere DEF SendExit
    <2> QED
      BY <1>1, <1>6, <2>1 DEF SendExit
  <1>7. CASE JoinThreads(c)
    BY <1>1, <1>7 DEF JoinThreads
  <1>8. CASE JoinFaults(c)
    BY <1>1, <1>8 DEF JoinFaults
  <1>9. CASE Killed(c)
    BY <1>1, <1>9 DEF Killed
  <1>10. CASE SendQuit(c)
    <2>1. queue'[1] = queue[1]
      BY <1>1, <1>2, <1>10, SendElsewhere DEF SendQuit
    <2> QED
      BY <1>1, <1>10, <2>1 DEF SendQuit
  <1>11. CASE RcvTest(c) \/ RcvNothing(c)
    BY <1>11 DEF RcvTest, RcvNothing
  <1>12. CASE RcvJoin(c) \/ RcvLeave(c) \/ RcvLine(c)
    <2>1. queue'[1] = queue[1]
      BY <1>1, <1>2, <1>12, ReceiveElsewhere DEF RcvJoin, RcvLeave, RcvLine
    <2> QED
      BY <1>12, <2>1 DEF RcvJoin, RcvLeave, RcvLine
  <1>13. CASE RcvExit(c)
    <2>1. queue'[1] = queue[1]
      BY <1>1, <1>2, <1>13, ReceiveElsewhere DEF RcvExit
    <2> QED
      BY <1>1, <1>13, <2>1 DEF RcvExit
  <1> QED
    BY <1>3, <1>4, <1>5, <1>6, <1>7, <1>8, <1>9, <1>10, <1>11, <1>12, <1>13
       DEF UserActs, MainRuns, Receiver

LEMMA MembershipStep ==
    ASSUME TypeInv, TypeInv', MembershipInv, [Next]_vars
    PROVE  MembershipInv'
  <1> SUFFICES ASSUME Serving' PROVE MembershipInv'
    BY DEF MembershipInv
  <1>1. CASE MembersHandler
    <2>1. CASE MemReceive
      BY <2>1, ReceiveKeeps
    <2>2. CASE MemLeave
      BY <2>2, LeaveKeeps
    <2>3. CASE MemAdd
      BY <2>3, AddKeeps
    <2>4. CASE MemReset \/ MemFlag
      BY <2>4 DEF MemReset, MemFlag, Serving
    <2> QED
      BY <1>1, <2>1, <2>2, <2>3, <2>4, MembersCalm, CalmKeeps
         DEF MembersHandler
  <1>2. CASE MessageHandler
    BY <1>2, MessagesCalm, CalmKeeps
  <1>3. CASE ServerEnd
    BY <1>3 DEF ServerEnd, Serving, memVars
  <1>4. ASSUME NEW c \in Clients, UserActs(c) \/ MainRuns(c) \/ Receiver(c)
        PROVE  MembershipInv'
    BY <1>4, BootKeeps, SendLeaveKeeps, ClientCalm, CalmKeeps
  <1>5. CASE UNCHANGED vars
    <2>1. Calm
      BY <1>5 DEF Calm, vars, memVars, server, client, history, HasLeft,
                  MayLeave, Serving
    <2> QED
      BY <2>1, CalmKeeps
  <1> QED
    BY <1>1, <1>2, <1>3, <1>4, <1>5 DEF Next

(* The places of a client in the protocol are known to the server, in      *)
(* every state until it begins to stop.                                    *)
THEOREM MembershipCorrect == Spec => []MembershipInv
  <1>1. Init => TypeInv /\ MembershipInv
    <2> SUFFICES ASSUME Init PROVE MembershipInv
      BY InitType
    <2>1. /\ queue[1] = <<>> /\ members = <<>> /\ ~removed /\ memPc = "recv"
          /\ \A c \in Clients : mainPc[c] = "boot" /\ joined[c] = NotYet
      BY MTypesHas DEF Init
    <2>2. TableOK
      BY <2>1 DEF TableOK
    <2>3. JoinOnce
      BY <2>1 DEF JoinOnce, Handling
    <2>4. LeaveAfterJoin
      BY <2>1 DEF LeaveAfterJoin, Handling
    <2>5. Known
      BY <2>1 DEF Known, MayLeave, Waiting, Handling, Holds
    <2> QED
      BY <2>1, <2>2, <2>3, <2>4, <2>5 DEF MembershipInv
  <1>2. TypeInv /\ MembershipInv /\ [Next]_vars => (TypeInv /\ MembershipInv)'
    BY TypeStep, MembershipStep
  <1> QED
    BY <1>1, <1>2, PTL DEF Spec

LEMMA LeaveFoundInv == TypeInv /\ MembershipInv => LeaveFound
  BY DEF TypeInv, Held, MembershipInv, Serving, LeaveAfterJoin, LeaveFound,
         Handling, About, Present, Message

(* The members thread never looks in vain for who leaves (server.c 69).    *)
THEOREM LeaveAlwaysFound == Spec => []LeaveFound
  BY TypeInvariant, MembershipCorrect, LeaveFoundInv, PTL

-----------------------------------------------------------------------------
(* The counter, and the decision taken on it.                              *)

CountInv ==
    /\ OnlineCount
    /\ memPc = "reset" => online <= 0

LEMMA OnlineFinite ==
    ASSUME NEW S, NEW table \in Seq(S)
    PROVE  IsFiniteSet(Online(table))
  <1>1. IsFiniteSet(1..Len(table))
    BY LenProperties, FS_Interval
  <1>2. Online(table) \subseteq 1..Len(table)
    BY LenProperties DEF Online
  <1> QED
    BY <1>1, <1>2, FS_Subset

LEMMA CountLeave ==
    ASSUME TypeInv, MembershipInv, CountInv, MemLeave PROVE CountInv'
  <1> DEFINE c0 == memMsg.from
  <1>1. /\ memPc = "lock" /\ memPc' = "cast" /\ memMsg.kind = "leave"
        /\ members' = SetOffline(members, c0) /\ online' = online - 1
    BY DEF MemLeave
  <1>2. LeaveFound /\ TableOK
    BY <1>1, LeaveFoundInv DEF MembershipInv, Serving
  <1>3. PICK k \in Online(members) : members[k].id = c0
    BY <1>1, <1>2 DEF LeaveFound
  <1>4. members \in Seq(Entry(Clients)) /\ Distinct(members) /\ k \in DOMAIN members
    BY <1>2, <1>3 DEF TableOK, Distinct, TypeInv, TypeOK, Online
  <1>5. Online(members') = Online(members) \ {k}
    BY <1>1, <1>3, <1>4, SetOfflineMarks
  <1>6. IsFiniteSet(Online(members))
    BY <1>4, OnlineFinite
  <1>7. Cardinality(Online(members')) = Cardinality(Online(members)) - 1
    BY <1>3, <1>5, <1>6, FS_RemoveElement
  <1> QED
    BY <1>1, <1>7 DEF CountInv, OnlineCount

LEMMA CountAdd ==
    ASSUME TypeInv, CountInv, MemAdd PROVE CountInv'
  <1> DEFINE e == [id |-> memMsg.from, online |-> TRUE]
             n == Len(members) + 1
  <1>1. /\ memPc' = "cast" /\ members' = Append(members, e)
        /\ online' = online + 1
    BY DEF MemAdd
  <1>2. e \in Entry(Clients) /\ members \in Seq(Entry(Clients))
    BY DEF MemAdd, TypeInv, TypeOK, Held, Message, Entry
  <1>3. /\ Len(members) \in Nat /\ DOMAIN members = 1..Len(members)
        /\ DOMAIN members' = 1..n /\ members'[n] = e
        /\ \A i \in 1..Len(members) : members'[i] = members[i]
    BY <1>1, <1>2, AppendProperties, LenProperties
  <1>4. Online(members') = Online(members) \cup {n} /\ n \notin Online(members)
    BY <1>3 DEF Online
  <1>5. IsFiniteSet(Online(members))
    BY <1>2, OnlineFinite
  <1>6. Cardinality(Online(members')) = Cardinality(Online(members)) + 1
    BY <1>4, <1>5, FS_AddElement
  <1> QED
    BY <1>1, <1>6 DEF CountInv, OnlineCount

LEMMA CountReset ==
    ASSUME TypeInv, CountInv, MemReset PROVE CountInv'
  <1>1. IsFiniteSet(Online(members))
    BY OnlineFinite DEF TypeInv, TypeOK
  <1>2. Cardinality(Online(members)) \in Nat
    BY <1>1, FS_CardinalityType
  <1>3. online = 0
    BY <1>2 DEF MemReset, CountInv, OnlineCount
  <1>4. members' = <<>> /\ online' = online /\ memPc' = "flag"
    BY DEF MemReset
  <1>5. Online(members') = {}
    BY <1>4 DEF Online
  <1>6. Cardinality(Online(members')) = 0
    BY <1>5, FS_EmptySet
  <1> QED
    BY <1>3, <1>4, <1>6 DEF CountInv, OnlineCount

LEMMA CountStep ==
    ASSUME TypeInv, MembershipInv, CountInv, [Next]_vars PROVE CountInv'
  <1>1. ASSUME UNCHANGED <<members, online>>, memPc' = "reset" => memPc = "reset"
        PROVE  CountInv'
    BY <1>1 DEF CountInv, OnlineCount
  <1>2. CASE MembersHandler
    <2>1. CASE MemReceive
      BY <1>1, <2>1 DEF MemReceive, server
    <2>2. CASE MemJoin
      BY <1>1, <2>2 DEF MemJoin
    <2>3. CASE MemShareMember
      BY <1>1, <2>3 DEF MemShareMember, server
    <2>4. CASE MemShareLine
      BY <1>1, <2>4 DEF MemShareLine, server
    <2>5. CASE MemShareEnd
      BY <1>1, <2>5 DEF MemShareEnd, server
    <2>6. CASE MemCast
      BY <1>1, <2>6 DEF MemCast, server
    <2>7. CASE MemCheck
      BY <2>7 DEF MemCheck, CountInv, OnlineCount
    <2>8. CASE MemFlag
      BY <1>1, <2>8 DEF MemFlag
    <2> QED
      BY <1>2, <2>1, <2>2, <2>3, <2>4, <2>5, <2>6, <2>7, <2>8,
         CountLeave, CountAdd, CountReset DEF MembersHandler
  <1>3. CASE MessageHandler
    BY <1>1, <1>3, MessagesCalm DEF Calm
  <1>4. CASE ServerEnd
    BY <1>1, <1>4 DEF ServerEnd, server, memVars
  <1>5. ASSUME NEW c \in Clients, UserActs(c) \/ MainRuns(c) \/ Receiver(c)
        PROVE  CountInv'
    <2>1. CASE Boot(c)
      BY <1>1, <2>1 DEF Boot, server, memVars
    <2>2. CASE SendLeave(c)
      BY <1>1, <2>2 DEF SendLeave, server, memVars
    <2>3. CASE ~Boot(c) /\ ~SendLeave(c)
      BY <1>1, <1>5, <2>3, ClientCalm DEF Calm
    <2> QED
      BY <2>1, <2>2, <2>3
  <1>6. CASE UNCHANGED vars
    BY <1>1, <1>6 DEF vars, server, memVars
  <1> QED
    BY <1>2, <1>3, <1>4, <1>5, <1>6 DEF Next

LEMMA CountInvariant == Spec => []CountInv
  <1>1. Init => CountInv
    <2> SUFFICES ASSUME Init PROVE CountInv
      OBVIOUS
    <2>1. online = 0 /\ members = <<>> /\ memPc = "recv"
      BY DEF Init
    <2>2. Online(members) = {}
      BY <2>1 DEF Online
    <2> QED
      BY <2>1, <2>2, FS_EmptySet DEF CountInv, OnlineCount
  <1>2. Spec => [](TypeInv /\ MembershipInv)
    BY TypeInvariant, MembershipCorrect, PTL
  <1> QED
    BY <1>1, <1>2, CountStep, PTL DEF Spec

(* members_online is the number of entries marked online (server.c 70, 80). *)
THEOREM CountCorrect == Spec => []OnlineCount
  <1>1. CountInv => OnlineCount
    BY DEF CountInv
  <1> QED
    BY <1>1, CountInvariant, PTL

AllRegisteredLeft == \A c \in Clients : joined[c] # NotYet => HasLeft(c)

LEMMA ResetMeansLeft ==
    ASSUME TypeInv, MembershipInv, CountInv, memPc = "reset"
    PROVE  AllRegisteredLeft
  <1>1. TableOK /\ Known
    BY DEF MembershipInv, Serving
  <1>2. IsFiniteSet(Online(members))
    BY OnlineFinite DEF TypeInv, TypeOK
  <1>3. Cardinality(Online(members)) = 0
    BY <1>2, FS_CardinalityType DEF CountInv, OnlineCount
  <1>4. Online(members) = {}
    BY <1>2, <1>3, FS_EmptySet
  <1>5. \A i \in DOMAIN members : HasLeft(members[i].id)
    BY <1>1, <1>4 DEF Online, TableOK
  <1> QED
    BY <1>1, <1>5 DEF AllRegisteredLeft, Known, Holds

(* Who has left stays away, and only MemAdd registers anybody.             *)
LEMMA LeftStays ==
    ASSUME TypeInv, [Next]_vars, memPc # "add", AllRegisteredLeft
    PROVE  AllRegisteredLeft'
  <1>1. ASSUME Calm PROVE AllRegisteredLeft'
    BY <1>1 DEF Calm, AllRegisteredLeft
  <1>2. ASSUME UNCHANGED <<mainPc, joined, left>> PROVE AllRegisteredLeft'
    BY <1>2 DEF AllRegisteredLeft, HasLeft
  <1>3. CASE MembersHandler
    BY <1>1, <1>2, <1>3, MembersCalm
       DEF MembersHandler, MemReceive, MemLeave, MemAdd, MemReset, MemFlag,
           client, history
  <1>4. CASE MessageHandler
    BY <1>1, <1>4, MessagesCalm
  <1>5. CASE ServerEnd
    BY <1>2, <1>5 DEF ServerEnd, client, history
  <1>6. ASSUME NEW c \in Clients, UserActs(c) \/ MainRuns(c) \/ Receiver(c)
        PROVE  AllRegisteredLeft'
    <2>1. CASE Boot(c)
      <3>1. \A d \in Clients : HasLeft(d) => HasLeft(d)'
        BY <2>1 DEF Boot, Goto, HasLeft, TypeInv, TypeOK
      <3>2. joined' = joined
        BY <2>1 DEF Boot, history
      <3> QED
        BY <3>1, <3>2 DEF AllRegisteredLeft
    <2>2. CASE SendLeave(c)
      <3>1. \A d \in Clients : HasLeft(d) => HasLeft(d)'
        BY <2>2 DEF SendLeave, Goto, HasLeft, TypeInv, TypeOK
      <3>2. joined' = joined
        BY <2>2 DEF SendLeave, history
      <3> QED
        BY <3>1, <3>2 DEF AllRegisteredLeft
    <2> QED
      BY <1>1, <1>6, <2>1, <2>2, ClientCalm
  <1>7. CASE UNCHANGED vars
    BY <1>2, <1>7 DEF vars, client, history
  <1> QED
    BY <1>3, <1>4, <1>5, <1>6, <1>7 DEF Next

LEMMA StopPlaces ==
    ASSUME [Next]_vars, memPc' \in {"flag", "done"}
    PROVE  memPc \in {"reset", "flag", "done"}
  <1>1. CASE MembersHandler
    BY <1>1 DEF MembersHandler, MemReceive, MemLeave, MemJoin, MemShareMember,
       MemShareLine, MemShareEnd, MemAdd, MemCast, MemCheck, MemReset, MemFlag
  <1>2. CASE MessageHandler
    BY <1>2 DEF MessageHandler, MsgTest, MsgReceive, MsgQuit, MsgCast,
       MsgCastEnd, MsgAdd, memVars
  <1>3. CASE ServerEnd
    BY <1>3 DEF ServerEnd, memVars
  <1>4. ASSUME NEW c \in Clients, UserActs(c) \/ MainRuns(c) \/ Receiver(c)
        PROVE  memPc' = memPc
    BY <1>4 DEF UserActs, MainRuns, Receiver, Boot, TypeLine, SendLine,
       TypeExit, SendExit, JoinThreads, JoinFaults, Killed, SendLeave,
       SendQuit, RcvTest, RcvNothing, RcvJoin, RcvLeave, RcvLine, RcvExit,
       memVars
  <1>5. CASE UNCHANGED vars
    BY <1>5 DEF vars, memVars
  <1> QED
    BY <1>1, <1>2, <1>3, <1>4, <1>5 DEF Next

(* The server begins to stop only when every client it ever registered has *)
(* sent its leave; one that was killed or faulted before that keeps it     *)
(* going (server.c 69-70, 85; client.c 92, 126).                           *)
THEOREM StopCorrect == Spec => []StopsWhenEmpty
  <1> DEFINE All == TypeInv /\ MembershipInv /\ CountInv
             Stopping == memPc \in {"flag", "done"} => AllRegisteredLeft
  <1>1. Init => Stopping
    BY DEF Init
  <1>2. All /\ Stopping /\ [Next]_vars => Stopping'
    <2> SUFFICES ASSUME All, Stopping, [Next]_vars,
                        memPc' \in {"flag", "done"}
                 PROVE  AllRegisteredLeft'
      OBVIOUS
    <2>1. memPc \in {"reset", "flag", "done"}
      BY StopPlaces
    <2>2. AllRegisteredLeft
      BY <2>1, ResetMeansLeft
    <2> QED
      BY <2>1, <2>2, LeftStays
  <1>3. All /\ Stopping => StopsWhenEmpty
    <2> SUFFICES ASSUME All, Stopping PROVE StopsWhenEmpty
      OBVIOUS
    <2>1. memPc \in {"reset", "flag", "done"} => AllRegisteredLeft
      BY ResetMeansLeft
    <2> QED
      BY <2>1 DEF StopsWhenEmpty, AllRegisteredLeft, HasLeft
  <1>4. Spec => []All
    BY TypeInvariant, MembershipCorrect, CountInvariant, PTL
  <1> QED
    BY <1>1, <1>2, <1>3, <1>4, PTL DEF Spec

-----------------------------------------------------------------------------
(* A client hears of a leave only after it has heard of the join.          *)

InOrder(q, table) ==
    \A k \in DOMAIN q : q[k].kind = "leave" => Hears(q, table, k - 1, q[k].from)

(* Everybody in the table knows who is online in it, but for the one whom  *)
(* the broadcast under way has not announced to him yet; a leave is sent   *)
(* to those who know him who leaves; the newcomer knows whoever has been   *)
(* shared with him.                                                        *)
KnowTable ==
    \A i, j \in DOMAIN members : members[j].online =>
        \/ Knows(members[i].id, members[j].id)
        \/ memPc = "cast" /\ About(memMsg, "join", members[j].id) /\ memI <= i

KnowLeaver ==
    memPc = "cast" /\ memMsg.kind = "leave" =>
        \A i \in DOMAIN members : memI <= i => Knows(members[i].id, memMsg.from)

KnowShared ==
    memPc \in {"share", "add"} =>
        \A j \in DOMAIN members :
            members[j].online /\ (memPc = "add" \/ j < memI) =>
                Knows(memMsg.from, members[j].id)

KnowInv ==
    /\ \A c \in Clients : InOrder(queue[c], view[c])
    /\ Serving => KnowTable /\ KnowLeaver /\ KnowShared

(* One message more at the end.                                            *)
LEMMA HearsAppend ==
    ASSUME NEW q \in Seq(Message), NEW m \in Message, NEW table
    PROVE  /\ Append(q, m) \in Seq(Message) /\ Len(Append(q, m)) = Len(q) + 1
           /\ \A d : Hears(q, table, Len(q), d) =>
                        Hears(Append(q, m), table, Len(q) + 1, d)
           /\ m.kind = "join" =>
                 Hears(Append(q, m), table, Len(q) + 1, m.from)
           /\ InOrder(q, table) /\
              (m.kind = "leave" => Hears(q, table, Len(q), m.from)) =>
                 InOrder(Append(q, m), table)
<1> DEFINE qm == Append(q, m)
<1>1. /\ qm \in Seq(Message) /\ Len(qm) = Len(q) + 1 /\ Len(q) \in Nat
      /\ \A i \in 1..Len(q) : qm[i] = q[i]
      /\ qm[Len(q) + 1] = m
      /\ DOMAIN qm = 1..(Len(q) + 1) /\ DOMAIN q = 1..Len(q)
  BY AppendProperties, LenProperties
<1> HIDE DEF qm
<1>2. \A d : \A k \in 0..Len(q) :
         Hears(q, table, k, d) => Hears(qm, table, k, d)
  BY <1>1 DEF Hears
<1>3. \A d : Hears(qm, table, Len(q), d) => Hears(qm, table, Len(q) + 1, d)
  BY <1>1 DEF Hears
<1>4. Len(q) \in 0..Len(q)
  BY <1>1
<1>5. m.kind = "join" => Hears(qm, table, Len(q) + 1, m.from)
  <2>1. Len(q) + 1 \in 1..(Len(q) + 1)
    BY <1>1
  <2> QED
    BY <1>1, <2>1 DEF Hears, About
<1>6. ASSUME InOrder(q, table),
             m.kind = "leave" => Hears(q, table, Len(q), m.from)
      PROVE  InOrder(qm, table)
  <2> SUFFICES ASSUME NEW k \in DOMAIN qm, qm[k].kind = "leave"
               PROVE  Hears(qm, table, k - 1, qm[k].from)
    BY DEF InOrder
  <2>1. CASE k = Len(q) + 1
    <3>1. k - 1 = Len(q)
      BY <1>1, <2>1
    <3>2. qm[k] = m
      BY <1>1, <2>1
    <3> QED
      BY <1>2, <1>4, <1>6, <3>1, <3>2
  <2>2. CASE k # Len(q) + 1
    <3>1. k \in DOMAIN q /\ k - 1 \in 0..Len(q) /\ qm[k] = q[k]
      BY <1>1, <2>2
    <3>2. Hears(q, table, k - 1, q[k].from)
      BY <1>6, <3>1 DEF InOrder
    <3> QED
      BY <1>2, <3>1, <3>2
  <2> QED
    BY <2>1, <2>2
<1> QED
  BY <1>1, <1>2, <1>3, <1>4, <1>5, <1>6 DEF qm

(* The oldest message is taken, and the table made from it.                *)
LEMMA HearsTail ==
    ASSUME NEW q \in Seq(Message), q # <<>>, NEW table, NEW after,
           \A d : Holds(table, d) => Holds(after, d),
           Head(q).kind = "join" => Holds(after, Head(q).from)
    PROVE  /\ Tail(q) \in Seq(Message) /\ Len(Tail(q)) = Len(q) - 1
           /\ \A d : Hears(q, table, Len(q), d) =>
                        Hears(Tail(q), after, Len(q) - 1, d)
           /\ InOrder(q, table) => InOrder(Tail(q), after)
<1> DEFINE t == Tail(q)
<1>1. /\ t \in Seq(Message) /\ Len(t) = Len(q) - 1 /\ Len(q) \in Nat
      /\ Len(q) # 0 /\ Head(q) = q[1]
      /\ \A i \in 1..(Len(q) - 1) : t[i] = q[i + 1]
      /\ DOMAIN t = 1..(Len(q) - 1) /\ DOMAIN q = 1..Len(q)
  BY HeadTailProperties, LenProperties, EmptySeq
<1> HIDE DEF t
<1>2. ASSUME NEW d, NEW k \in 1..Len(q), Hears(q, table, k, d)
      PROVE  Hears(t, after, k - 1, d)
  <2>1. CASE Holds(table, d)
    BY <2>1 DEF Hears
  <2>2. ASSUME NEW i \in 1..k, About(q[i], "join", d)
        PROVE  Hears(t, after, k - 1, d)
    <3>1. CASE i = 1
      BY <1>1, <2>2, <3>1 DEF Hears, About
    <3>2. CASE i # 1
      <4>1. i - 1 \in 1..(k - 1) /\ i - 1 \in 1..(Len(q) - 1) /\ (i - 1) + 1 = i
        BY <1>1, <3>2
      <4>2. t[i-1] = q[i]
        BY <1>1, <4>1
      <4> QED
        BY <2>2, <4>1, <4>2 DEF Hears
    <3> QED
      BY <3>1, <3>2
  <2> QED
    BY <1>2, <2>1, <2>2 DEF Hears
<1>3. Len(q) \in 1..Len(q)
  BY <1>1
<1>4. ASSUME InOrder(q, table) PROVE InOrder(t, after)
  <2> SUFFICES ASSUME NEW k \in DOMAIN t, t[k].kind = "leave"
               PROVE  Hears(t, after, k - 1, t[k].from)
    BY DEF InOrder
  <2>1. /\ k + 1 \in DOMAIN q /\ t[k] = q[k + 1]
        /\ k \in 1..Len(q) /\ (k + 1) - 1 = k
    BY <1>1
  <2>2. Hears(q, table, k, t[k].from)
    BY <1>4, <2>1 DEF InOrder
  <2> QED
    BY <1>2, <2>1, <2>2
<1> QED
  BY <1>1, <1>2, <1>3, <1>4 DEF t

(* What a step does to the mailboxes and tables of the clients.            *)
Heard ==
    \A c \in Clients : /\ InOrder(queue'[c], view'[c])
                       /\ \A d : Knows(c, d) => Knows(c, d)'

(* Who gets a message keeps what he knew; a leave, if he knows of whom.    *)
LEMMA SendHeard ==
    ASSUME TypeInv, KnowInv, NEW t \in MTypes, NEW m \in Message,
           Send(t, m) \/ ClientSend(t, m), view' = view,
           t \in Clients /\ m.kind = "leave" => Knows(t, m.from)
    PROVE  Heard
<1>1. queue \in [MTypes -> Seq(Message)] /\ Clients \subseteq MTypes
  BY MTypesHas DEF TypeInv, TypeOK
<1> SUFFICES ASSUME NEW c \in Clients
             PROVE  /\ InOrder(queue'[c], view'[c])
                    /\ \A d : Knows(c, d) => Knows(c, d)'
  BY DEF Heard
<1>2. InOrder(queue[c], view[c])
  BY DEF KnowInv
<1>3. CASE queue'[c] = queue[c]
  BY <1>2, <1>3 DEF Knows
<1>4. CASE queue'[c] # queue[c]
  <2>1. c = t /\ queue'[c] = Append(queue[c], m)
    BY <1>1, <1>4 DEF Send, ClientSend
  <2>2. queue[c] \in Seq(Message)
    BY <1>1
  <2>3. /\ Len(queue'[c]) = Len(queue[c]) + 1
        /\ InOrder(queue'[c], view[c])
        /\ \A d : Hears(queue[c], view[c], Len(queue[c]), d) =>
                     Hears(queue'[c], view[c], Len(queue[c]) + 1, d)
    BY <1>2, <2>1, <2>2, HearsAppend DEF Knows
  <2> QED
    BY <2>3 DEF Knows
<1> QED
  BY <1>3, <1>4

(* Who is sent a join knows of it.                                         *)
LEMMA SendTells ==
    ASSUME TypeInv, NEW c \in Clients, NEW m \in Message, m.kind = "join",
           Send(c, m), view' = view
    PROVE  Knows(c, m.from)'
<1>1. queue[c] \in Seq(Message) /\ queue'[c] = Append(queue[c], m)
  BY MTypesHas DEF TypeInv, TypeOK, Send
<1>2. /\ Len(queue'[c]) = Len(queue[c]) + 1
      /\ Hears(queue'[c], view[c], Len(queue[c]) + 1, m.from)
  <2>1. PICK q, table : q = queue[c] /\ table = view[c]
    OBVIOUS
  <2>2. /\ Len(Append(q, m)) = Len(q) + 1
        /\ Hears(Append(q, m), table, Len(q) + 1, m.from)
    BY <1>1, <2>1, HearsAppend
  <2> QED
    BY <1>1, <2>1, <2>2
<1>3. Knows(c, m.from)' <=> Hears(queue'[c], view[c], Len(queue'[c]), m.from)
  BY DEF Knows
<1> QED
  BY <1>2, <1>3

(* The threads of the server read no mailbox.                              *)
LEMMA ReceiveHeard ==
    ASSUME TypeInv, KnowInv, NEW t \in {1, 2}, Receive(t), view' = view
    PROVE  Heard
<1>1. \A c \in Clients : queue'[c] = queue[c]
  BY ClientsAssumption, MTypesHas DEF TypeInv, TypeOK, Receive
<1> QED
  BY <1>1 DEF Heard, Knows, KnowInv

(* No message and no table changes.                                        *)
LEMMA QuietHeard ==
    ASSUME KnowInv, queue' = queue, view' = view
    PROVE  Heard
  BY DEF Heard, Knows, KnowInv

(* Who is marked offline stays in the table.                               *)
LEMMA SameIds ==
    ASSUME NEW table \in Seq(Entry(Clients)), NEW id, NEW d, Holds(table, d)
    PROVE  Holds(SetOffline(table, id), d)
<1> DEFINE new == SetOffline(table, id)
<1>1. /\ new \in Seq(Entry(Clients)) /\ Len(new) = Len(table)
      /\ \A i \in 1..Len(table) : new[i].id = table[i].id
  BY SetOfflineType
<1> HIDE DEF new
<1>2. DOMAIN new = 1..Len(table) /\ DOMAIN table = 1..Len(table)
  BY <1>1, LenProperties
<1> QED
  BY <1>1, <1>2 DEF Holds, new

(* Who is added is in the table, with all that were in it.                 *)
LEMMA AddedId ==
    ASSUME NEW table \in Seq(Entry(Clients)), NEW entry \in Entry(Clients),
           NEW d, Holds(table, d) \/ d = entry.id
    PROVE  Holds(DataAdd(table, entry), d)
<1> DEFINE new == Append(table, entry)
<1>1. /\ \A i \in 1..Len(table) : new[i] = table[i]
      /\ new[Len(table) + 1] = entry /\ Len(table) \in Nat
      /\ DOMAIN new = 1..(Len(table) + 1) /\ DOMAIN table = 1..Len(table)
  BY AppendProperties, LenProperties
<1> HIDE DEF new
<1>2. Len(table) + 1 \in DOMAIN new
  BY <1>1
<1>3. Holds(new, d)
  BY <1>1, <1>2 DEF Holds
<1> QED
  BY <1>3 DEF new

(* A client reads its mailbox.                                             *)
LEMMA ReaderHeard ==
    ASSUME TypeInv, KnowInv, NEW c \in Clients, Receiver(c)
    PROVE  Heard
<1>1. CASE RcvTest(c) \/ RcvNothing(c)
  BY <1>1, QuietHeard DEF RcvTest, RcvNothing
<1>2. CASE ~(RcvTest(c) \/ RcvNothing(c))
  <2> DEFINE first == Head(queue[c])
  <2>1. /\ queue[c] \in Seq(Message) /\ view[c] \in Seq(Entry(Clients))
        /\ queue \in [MTypes -> Seq(Message)]
        /\ view \in [Clients -> Seq(Entry(Clients))]
    BY MTypesHas DEF TypeInv, TypeOK
  <2>2. /\ Receive(c)
        /\ \/ /\ first.kind = "join"
              /\ view' = [view EXCEPT ![c] =
                    DataAdd(view[c], [id |-> first.from, online |-> TRUE])]
           \/ /\ first.kind = "leave"
              /\ view' = [view EXCEPT ![c] = SetOffline(view[c], first.from)]
           \/ first.kind \in {"line", "exit"} /\ view' = view
    BY <1>2 DEF Receiver, RcvJoin, RcvLeave, RcvLine, RcvExit, IsLine
  <2>3. queue[c] # <<>> /\ queue'[c] = Tail(queue[c]) /\ first \in Message
    BY <2>1, <2>2, MTypesHas, ReceiveType DEF Receive
  <2>4. \A e \in Clients : e # c => queue'[e] = queue[e] /\ view'[e] = view[e]
    BY <2>1, <2>2, MTypesHas DEF Receive
  <2> HIDE DEF first
  <2>5. [id |-> first.from, online |-> TRUE] \in Entry(Clients)
    BY <2>3 DEF Message, Entry
  <2>6. /\ \A d : Holds(view[c], d) => Holds(view'[c], d)
        /\ first.kind = "join" => Holds(view'[c], first.from)
    <3>1. CASE first.kind = "join"
      <4>1. view'[c] = DataAdd(view[c], [id |-> first.from, online |-> TRUE])
        BY <2>1, <2>2, <3>1
      <4> QED
        BY <2>1, <2>5, <4>1, AddedId
    <3>2. CASE first.kind = "leave"
      <4>1. view'[c] = SetOffline(view[c], first.from)
        BY <2>1, <2>2, <3>2
      <4> QED
        BY <2>1, <3>2, <4>1, SameIds
    <3>3. CASE first.kind \notin {"join", "leave"}
      BY <2>2, <3>3
    <3> QED
      BY <3>1, <3>2, <3>3
  <2>7. InOrder(queue[c], view[c])
    BY DEF KnowInv
  <2>8. /\ Len(queue'[c]) = Len(queue[c]) - 1
        /\ InOrder(queue'[c], view'[c])
        /\ \A d : Hears(queue[c], view[c], Len(queue[c]), d) =>
                     Hears(queue'[c], view'[c], Len(queue[c]) - 1, d)
    <3>1. PICK q, after : q = queue[c] /\ after = view'[c]
      OBVIOUS
    <3>2. /\ q \in Seq(Message) /\ q # <<>>
          /\ \A d : Holds(view[c], d) => Holds(after, d)
          /\ Head(q).kind = "join" => Holds(after, Head(q).from)
      BY <2>1, <2>3, <2>6, <3>1 DEF first
    <3>3. /\ Len(Tail(q)) = Len(q) - 1
          /\ \A d : Hears(q, view[c], Len(q), d) =>
                       Hears(Tail(q), after, Len(q) - 1, d)
          /\ InOrder(q, view[c]) => InOrder(Tail(q), after)
      BY <3>2, HearsTail
    <3>4. queue'[c] = Tail(q)
      BY <2>3, <3>1
    <3> QED
      BY <2>7, <3>1, <3>3, <3>4
  <2>9. InOrder(queue'[c], view'[c]) /\ \A d : Knows(c, d) => Knows(c, d)'
    BY <2>8 DEF Knows
  <2> QED
    BY <2>4, <2>9 DEF Heard, Knows, KnowInv
<1> QED
  BY <1>1, <1>2

(* A step that leaves the server's table and the place of its loop alone.  *)
LEMMA HeardKeeps ==
    ASSUME TypeInv, KnowInv, Heard, UNCHANGED <<members, memVars>>
    PROVE  KnowInv'
<1>1. \A i \in DOMAIN members : members[i].id \in Clients
  BY MemberId DEF TypeInv, TypeOK
<1>2. memPc \in {"share", "add"} => memMsg.from \in Clients
  BY DEF TypeInv, Held, Message
<1>3. memPc = "cast" => memMsg.from \in Clients
  BY DEF TypeInv, Held, Message
<1> QED
  BY <1>1, <1>2, <1>3
  DEF KnowInv, Heard, KnowTable, KnowLeaver, KnowShared, Serving, memVars

(* A join or a leave was taken; there is no broadcast yet.                 *)
LEMMA KnowReceive == ASSUME TypeInv, KnowInv, MemReceive PROVE KnowInv'
<1>1. Heard
  BY ReceiveHeard DEF MemReceive, client
<1>2. \A i \in DOMAIN members : members[i].id \in Clients
  BY MemberId DEF TypeInv, TypeOK
<1>3. KnowTable'
  BY <1>1, <1>2 DEF MemReceive, server, KnowInv, Serving, KnowTable, Heard
<1> QED
  BY <1>1, <1>3
  DEF MemReceive, KnowInv, Serving, KnowLeaver, KnowShared, Heard

(* Who leaves was online, so the others know him.                          *)
LEMMA KnowLeave ==
    ASSUME TypeInv, MembershipInv, KnowInv, MemLeave PROVE KnowInv'
<1>1. Heard
  BY QuietHeard DEF MemLeave, client
<1>2. /\ memPc = "lock" /\ memMsg.kind = "leave" /\ memMsg \in Message
      /\ members' = SetOffline(members, memMsg.from)
      /\ memPc' = "cast" /\ memMsg' = memMsg
      /\ queue' = queue /\ view' = view
  BY DEF MemLeave, client, TypeInv, Held
<1>3. /\ members \in Seq(Entry(Clients)) /\ members' \in Seq(Entry(Clients))
      /\ Len(members') = Len(members)
      /\ \A i \in 1..Len(members) : members'[i].id = members[i].id
  BY <1>2, SetOfflineType DEF TypeInv, TypeOK
<1>4. DOMAIN members' = 1..Len(members) /\ DOMAIN members = 1..Len(members)
  BY <1>3, LenProperties
<1>5. \A i \in 1..Len(members) : members'[i].online => members[i].online
  <2>1. Holds(members, memMsg.from) \/ ~Holds(members, memMsg.from)
    OBVIOUS
  <2> DEFINE k == DataFind(members, memMsg.from)
  <2> HIDE DEF k
  <2>2. members' = [members EXCEPT ![k].online = FALSE] \/ members' = members
    BY <1>2 DEF SetOffline, k
  <2>3. members \in [1..Len(members) -> Entry(Clients)]
    BY <1>3
  <2> QED
    BY <1>3, <1>4, <2>2, <2>3 DEF Entry
<1>6. LeaveFound
  BY LeaveFoundInv
<1>7. PICK j \in Online(members) : members[j].id = memMsg.from
  BY <1>2, <1>6 DEF LeaveFound
<1>8. KnowTable /\ j \in DOMAIN members /\ members[j].online
  BY <1>2, <1>7 DEF KnowInv, Serving, Online
<1>9. \A i \in DOMAIN members : Knows(members[i].id, memMsg.from)
  BY <1>2, <1>7, <1>8 DEF KnowTable
<1>10. \A i, l \in DOMAIN members :
           members[l].online => Knows(members[i].id, members[l].id)
  BY <1>2, <1>8 DEF KnowTable
<1>11. \A c, d : Knows(c, d)' <=> Knows(c, d)
  BY <1>2 DEF Knows
<1>12. KnowTable'
  BY <1>3, <1>4, <1>5, <1>10, <1>11 DEF KnowTable
<1>13. KnowLeaver'
  BY <1>2, <1>3, <1>4, <1>9, <1>11 DEF KnowLeaver
<1> QED
  BY <1>1, <1>2, <1>12, <1>13 DEF KnowInv, KnowShared, Heard

(* Nothing is shared yet.                                                  *)
LEMMA KnowJoin == ASSUME TypeInv, KnowInv, MemJoin PROVE KnowInv'
<1>1. Heard
  BY QuietHeard DEF MemJoin, client
<1>2. \A i \in DOMAIN members : members[i].id \in Clients
  BY MemberId DEF TypeInv, TypeOK
<1>3. KnowTable'
  BY <1>1, <1>2 DEF MemJoin, KnowInv, Serving, KnowTable, Heard
<1>4. \A j \in DOMAIN members : ~(j < 1)
  BY LenProperties DEF TypeInv, TypeOK
<1>5. KnowShared'
  BY <1>4 DEF MemJoin, KnowShared
<1> QED
  BY <1>1, <1>3, <1>5 DEF MemJoin, KnowInv, Serving, KnowLeaver, Heard

(* One entry more is shared, a line, or all have been.                     *)
LEMMA KnowShare ==
    ASSUME TypeInv, KnowInv, MemShareMember \/ MemShareLine \/ MemShareEnd
    PROVE  KnowInv'
<1>1. /\ memPc = "share" /\ memMsg \in Message /\ memMsg.kind = "join"
      /\ memMsg.from \in Clients /\ members' = members /\ memMsg' = memMsg
      /\ view' = view /\ memI \in Nat
  BY DEF MemShareMember, MemShareLine, MemShareEnd, server, client, TypeInv,
     TypeOK, Held, Message
<1>2. /\ members \in Seq(Entry(Clients)) /\ messages \in Seq(Lines)
      /\ Len(members) \in Nat /\ Len(messages) \in Nat
      /\ DOMAIN members = 1..Len(members)
      /\ \A i \in DOMAIN members : members[i].id \in Clients
  BY MemberId, LenProperties DEF TypeInv, TypeOK
<1>3. Heard
  <2>1. CASE MemShareMember
    <3>1. CASE queue' = queue
      BY <1>1, <3>1, QuietHeard
    <3>2. CASE Send(memMsg.from, Join(members[memI].id))
      <4>1. Join(members[memI].id) \in Message
        BY <1>2, <2>1, MessageType DEF MemShareMember
      <4> QED
        BY <1>1, <3>2, <4>1, MTypesHas, SendHeard DEF Join
    <3> QED
      BY <2>1, <3>1, <3>2 DEF MemShareMember
  <2>2. CASE MemShareLine
    <3> DEFINE line == messages[memI - Len(members)]
    <3>1. line \in Lines
      BY <1>2, <2>2, ElementOfSeq DEF MemShareLine
    <3>2. Send(memMsg.from, line)
      BY <2>2 DEF MemShareLine
    <3> HIDE DEF line
    <3>3. line \in Message /\ line.kind = "line"
      BY <3>1 DEF Lines
    <3> QED
      BY <1>1, <3>2, <3>3, MTypesHas, SendHeard
  <2>3. CASE MemShareEnd
    BY <1>1, <2>3, QuietHeard DEF MemShareEnd
  <2> QED
    BY <2>1, <2>2, <2>3
<1>4. KnowTable /\ KnowShared
  BY <1>1 DEF KnowInv, Serving
<1>5. /\ \A i, j \in DOMAIN members : members[j].online =>
             Knows(members[i].id, members[j].id)'
      /\ \A j \in DOMAIN members :
             members[j].online /\ j < memI => Knows(memMsg.from, members[j].id)'
  BY <1>1, <1>2, <1>3, <1>4 DEF KnowTable, KnowShared, Heard
<1>6. KnowTable' /\ memPc' \in {"share", "add"}
  BY <1>1, <1>5 DEF KnowTable, MemShareMember, MemShareLine, MemShareEnd
<1>7. KnowShared'
  <2> SUFFICES ASSUME NEW j \in DOMAIN members, members[j].online,
                      memPc' = "add" \/ j < memI'
               PROVE  Knows(memMsg.from, members[j].id)'
    BY <1>1 DEF KnowShared
  <2>1. CASE j < memI
    BY <1>5, <2>1
  <2>2. CASE ~(j < memI)
    <3>1. MemShareMember /\ j = memI
      <4>1. ~MemShareEnd
        BY <1>1, <1>2, <2>2 DEF MemShareEnd
      <4>2. ~MemShareLine
        BY <1>1, <1>2, <2>2 DEF MemShareLine
      <4>3. memPc' = "share" /\ memI' = memI + 1
        BY <1>1, <4>1, <4>2 DEF MemShareMember
      <4> QED
        BY <1>1, <1>2, <2>2, <4>1, <4>2, <4>3
    <3>2. Send(memMsg.from, Join(members[j].id))
      BY <3>1 DEF MemShareMember
    <3>3. /\ Join(members[j].id) \in Message
          /\ Join(members[j].id).kind = "join"
          /\ Join(members[j].id).from = members[j].id
      BY <1>2, MessageType DEF Join
    <3> QED
      BY <1>1, <3>2, <3>3, SendTells
  <2> QED
    BY <2>1, <2>2
<1> QED
  BY <1>3, <1>6, <1>7 DEF KnowInv, KnowLeaver, Heard

(* The newcomer knows everybody, and is to be announced to everybody.      *)
LEMMA KnowAdd == ASSUME TypeInv, KnowInv, MemAdd PROVE KnowInv'
<1> DEFINE n == Len(members)
           entry == [id |-> memMsg.from, online |-> TRUE]
<1>1. /\ memPc = "add" /\ memPc' = "cast" /\ memI' = 1
      /\ memMsg \in Message /\ memMsg.kind = "join" /\ memMsg' = memMsg
      /\ memMsg.from \in Clients
      /\ members' = Append(members, entry)
      /\ queue' = queue /\ view' = view
  BY DEF MemAdd, client, TypeInv, TypeOK, Held, Message
<1>2. /\ members \in Seq(Entry(Clients)) /\ n \in Nat
      /\ DOMAIN members = 1..n /\ entry \in Entry(Clients)
  BY <1>1, LenProperties DEF TypeInv, TypeOK, Entry
<1>3. /\ DOMAIN members' = 1..(n + 1) /\ members'[n + 1] = entry
      /\ \A i \in 1..n : members'[i] = members[i]
  BY <1>1, <1>2, AppendProperties, LenProperties
<1>4. Heard
  BY <1>1, QuietHeard
<1>5. KnowTable /\ KnowShared
  BY <1>1 DEF KnowInv, Serving
<1>6. \A c, d : Knows(c, d)' <=> Knows(c, d)
  BY <1>1 DEF Knows
<1> HIDE DEF n
<1>7. ASSUME NEW i \in DOMAIN members', NEW j \in DOMAIN members',
             members'[j].online
      PROVE  \/ Knows(members'[i].id, members'[j].id)
             \/ About(memMsg, "join", members'[j].id) /\ 1 <= i
  <2>1. 1 <= i
    BY <1>2, <1>3
  <2>2. CASE j = n + 1
    BY <1>1, <1>3, <2>1, <2>2 DEF About
  <2>3. CASE j # n + 1
    <3>1. j \in 1..n /\ members'[j] = members[j]
      BY <1>2, <1>3, <2>3
    <3>2. CASE i = n + 1
      <4>1. members'[i].id = memMsg.from
        BY <1>3, <3>2
      <4>2. Knows(memMsg.from, members[j].id)
        BY <1>1, <1>2, <1>5, <1>7, <3>1 DEF KnowShared
      <4> QED
        BY <3>1, <4>1, <4>2
    <3>3. CASE i # n + 1
      <4>1. i \in 1..n /\ members'[i] = members[i]
        BY <1>2, <1>3, <3>3
      <4> QED
        BY <1>1, <1>2, <1>5, <1>7, <3>1, <4>1 DEF KnowTable
    <3> QED
      BY <3>2, <3>3
  <2> QED
    BY <2>2, <2>3
<1>8. KnowTable'
  BY <1>1, <1>6, <1>7 DEF KnowTable
<1> QED
  BY <1>1, <1>4, <1>8 DEF KnowInv, KnowLeaver, KnowShared, Heard

(* One more has been told.                                                 *)
LEMMA KnowCast == ASSUME TypeInv, KnowInv, MemCast PROVE KnowInv'
<1>1. /\ memPc = "cast" /\ memPc' = "cast" /\ memMsg' = memMsg
      /\ memMsg \in Message /\ memMsg.from \in Clients
      /\ members' = members /\ view' = view
      /\ memI \in DOMAIN members /\ memI' = memI + 1
      /\ Send(members[memI].id, memMsg)
  BY DEF MemCast, server, client, TypeInv, TypeOK, Held, Message
<1>2. /\ DOMAIN members \subseteq Nat
      /\ \A i \in DOMAIN members : members[i].id \in Clients
  BY MemberId, LenProperties DEF TypeInv, TypeOK
<1>3. KnowTable /\ KnowLeaver
  BY <1>1 DEF KnowInv, Serving
<1>4. memI <= memI /\ members[memI].id \in Clients
  BY <1>1, <1>2
<1>5. Heard
  <2>1. memMsg.kind = "leave" => Knows(members[memI].id, memMsg.from)
    BY <1>1, <1>3, <1>4 DEF KnowLeaver
  <2> QED
    BY <1>1, <1>4, <2>1, MTypesHas, SendHeard
<1>6. ASSUME NEW c, c = members[memI].id, NEW d, About(memMsg, "join", d)
      PROVE  Knows(c, d)'
  BY <1>1, <1>4, <1>6, SendTells DEF About
<1>7. \A i \in DOMAIN members : memI + 1 <= i \/ i = memI \/ ~(memI <= i)
  BY <1>1, <1>2
<1>8. KnowTable'
  <2> SUFFICES ASSUME NEW i \in DOMAIN members, NEW j \in DOMAIN members,
                      members[j].online
               PROVE  \/ Knows(members[i].id, members[j].id)'
                      \/ About(memMsg, "join", members[j].id) /\ memI + 1 <= i
    BY <1>1 DEF KnowTable
  <2>1. CASE Knows(members[i].id, members[j].id)
    BY <1>1, <1>2, <1>5, <2>1 DEF Heard
  <2>2. CASE About(memMsg, "join", members[j].id) /\ memI <= i
    <3>1. CASE i = memI
      <4>1. PICK c, d : c = members[memI].id /\ d = members[j].id
        OBVIOUS
      <4>2. Knows(c, d)'
        BY <1>6, <2>2, <4>1
      <4>3. c = members'[i].id /\ d = members'[j].id
        BY <1>1, <3>1, <4>1
      <4> QED
        BY <4>2, <4>3
    <3>2. CASE i # memI
      BY <1>7, <2>2, <3>2
    <3> QED
      BY <3>1, <3>2
  <2> QED
    BY <1>3, <2>1, <2>2 DEF KnowTable
<1>9. KnowLeaver'
  <2> SUFFICES ASSUME NEW i \in DOMAIN members, memI + 1 <= i,
                      memMsg.kind = "leave"
               PROVE  Knows(members[i].id, memMsg.from)'
    BY <1>1 DEF KnowLeaver
  <2>1. memI <= i
    BY <1>1, <1>2
  <2> QED
    BY <1>1, <1>2, <1>3, <1>5, <2>1 DEF KnowLeaver, Heard
<1> QED
  BY <1>1, <1>5, <1>8, <1>9 DEF KnowInv, KnowShared, Heard

(* The broadcast is over, or the server ends.                              *)
LEMMA KnowAfterCast ==
    ASSUME TypeInv, KnowInv, MemCheck \/ MemReset \/ MemFlag PROVE KnowInv'
<1>1. Heard
  BY QuietHeard DEF MemCheck, MemReset, MemFlag, client
<1>2. CASE MemCheck
  <2>1. /\ members' = members /\ memPc' \in {"recv", "reset"}
        /\ memPc = "cast" /\ memI > Len(members)
    BY <1>2 DEF MemCheck
  <2>2. /\ \A i \in DOMAIN members : members[i].id \in Clients
        /\ \A i \in DOMAIN members : ~(memI <= i)
    BY <2>1, MemberId, LenProperties DEF TypeInv, TypeOK
  <2>3. KnowTable'
    BY <1>1, <2>1, <2>2 DEF KnowInv, Serving, KnowTable, Heard
  <2> QED
    BY <1>1, <2>1, <2>3 DEF KnowInv, KnowLeaver, KnowShared, Heard
<1>3. CASE MemReset
  BY <1>1, <1>3 DEF MemReset, KnowInv, Serving, Heard
<1>4. CASE MemFlag
  BY <1>1, <1>4 DEF MemFlag, KnowInv, Serving, Heard
<1> QED
  BY <1>2, <1>3, <1>4

(* The message thread sends lines only.                                    *)
LEMMA KnowMessages ==
    ASSUME TypeInv, KnowInv, MessageHandler PROVE KnowInv'
<1>1. UNCHANGED <<memVars, members, view>>
  BY DEF MessageHandler, MsgTest, MsgReceive, MsgQuit, MsgCast, MsgCastEnd,
     MsgAdd, server, client
<1>2. Heard
  <2>1. CASE MsgReceive
    BY <1>1, <2>1, ReceiveHeard DEF MsgReceive
  <2>2. CASE MsgCast
    <3>1. msgMsg \in Message /\ msgMsg.kind = "line"
      BY <2>2 DEF MsgCast, TypeInv, Held, Lines
    <3>2. members[msgI].id \in MTypes
      BY <2>2, MemberId, MTypesHas DEF MsgCast, TypeInv, TypeOK
    <3> QED
      BY <1>1, <2>2, <3>1, <3>2, SendHeard DEF MsgCast
  <2>3. CASE ~MsgReceive /\ ~MsgCast
    BY <1>1, <2>3, QuietHeard
    DEF MessageHandler, MsgTest, MsgQuit, MsgCastEnd, MsgAdd
  <2> QED
    BY <2>1, <2>2, <2>3
<1> QED
  BY <1>1, <1>2, HeardKeeps DEF memVars

(* The queue is removed when the members thread has ended.                 *)
LEMMA KnowEnd == ASSUME TypeInv, KnowInv, ServerEnd PROVE KnowInv'
<1>1. /\ ~Serving'
      /\ \A c \in Clients : queue'[c] = <<>>
  BY MTypesHas DEF ServerEnd, Serving, memVars
<1> QED
  BY <1>1 DEF KnowInv, InOrder

(* No client sends a join or a leave to a mailbox.                         *)
LEMMA KnowClient ==
    ASSUME TypeInv, KnowInv, NEW c \in Clients,
           UserActs(c) \/ MainRuns(c) \/ Receiver(c)
    PROVE  KnowInv'
<1>1. UNCHANGED <<members, memVars>>
  BY DEF UserActs, MainRuns, Receiver, Boot, TypeLine, SendLine, TypeExit,
     SendExit, JoinThreads, JoinFaults, Killed, SendLeave, SendQuit, RcvTest,
     RcvNothing, RcvJoin, RcvLeave, RcvLine, RcvExit, server
<1>2. Heard
  <2>1. CASE Receiver(c)
    BY <2>1, ReaderHeard
  <2>2. CASE \/ Boot(c) \/ SendLine(c) \/ SendExit(c) \/ SendLeave(c)
             \/ SendQuit(c)
    <3>1. typed[c] \in Nat
      BY DEF TypeInv, TypeOK
    <3>2. PICK t \in MTypes, m \in Message :
              /\ ClientSend(t, m) /\ view' = view
              /\ t \in {1, 2} \/ m.kind = "exit"
      BY <2>2, <3>1, MTypesHas, MessageType
      DEF Boot, SendLine, SendExit, SendLeave, SendQuit, Exit
    <3>3. t \in Clients => m.kind # "leave"
      BY <3>2, ClientsAssumption
    <3> QED
      BY <3>2, <3>3, SendHeard
  <2>3. CASE TypeLine(c) \/ TypeExit(c) \/ JoinThreads(c) \/ JoinFaults(c)
             \/ Killed(c)
    BY <2>3, QuietHeard
    DEF TypeLine, TypeExit, JoinThreads, JoinFaults, Killed
  <2> QED
    BY <2>1, <2>2, <2>3 DEF UserActs, MainRuns
<1> QED
  BY <1>1, <1>2, HeardKeeps

(* In every state a mailbox tells of a join before the leave.              *)
LEMMA KnowInvariant == Spec => []KnowInv
<1>1. Init => KnowInv
  <2> SUFFICES ASSUME Init PROVE KnowInv
    OBVIOUS
  <2>1. /\ \A c \in Clients : queue[c] = <<>>
        /\ members = <<>> /\ memPc = "recv"
    BY MTypesHas DEF Init
  <2> QED
    BY <2>1 DEF KnowInv, InOrder, KnowTable, KnowLeaver, KnowShared
<1>2. TypeInv /\ MembershipInv /\ KnowInv /\ [Next]_vars => KnowInv'
  <2> SUFFICES ASSUME TypeInv, MembershipInv, KnowInv, [Next]_vars
               PROVE  KnowInv'
    OBVIOUS
  <2>1. CASE MembersHandler
    BY <2>1, KnowReceive, KnowLeave, KnowJoin, KnowShare, KnowAdd, KnowCast,
       KnowAfterCast DEF MembersHandler
  <2>2. CASE UNCHANGED vars
    BY <2>2, QuietHeard, HeardKeeps DEF vars, server, client
  <2> QED
    BY <2>1, <2>2, KnowMessages, KnowEnd, KnowClient DEF Next
<1> QED
  BY <1>1, <1>2, TypeInvariant, MembershipCorrect, PTL DEF Spec

(* A client is told of a leave only after it was told of the join, however *)
(* joins, leaves and lines follow each other in its mailbox (client.c 157). *)
THEOREM ClientLeaveAlwaysFound == Spec => []ClientLeaveFound
<1>1. TypeInv /\ KnowInv => ClientLeaveFound
  <2> SUFFICES ASSUME TypeInv, KnowInv, NEW c \in Clients, queue[c] # <<>>,
                      Head(queue[c]).kind = "leave"
               PROVE  Holds(view[c], Head(queue[c]).from)
    BY DEF ClientLeaveFound
  <2>1. queue[c] \in Seq(Message)
    BY MTypesHas DEF TypeInv, TypeOK
  <2>2. 1 \in DOMAIN queue[c] /\ Head(queue[c]) = queue[c][1]
    BY <2>1, LenProperties, EmptySeq
  <2>3. InOrder(queue[c], view[c])
    BY DEF KnowInv
  <2>4. Hears(queue[c], view[c], 1 - 1, queue[c][1].from)
    BY <2>2, <2>3 DEF InOrder
  <2>5. \A i \in 1..(1 - 1) : FALSE
    OBVIOUS
  <2> QED
    BY <2>2, <2>4, <2>5 DEF Hears
<1> QED
  BY <1>1, TypeInvariant, KnowInvariant, PTL

(* Whoever is in the server's table has been told of everybody who is      *)
(* online in it, or is about to be, for any number of clients (server.c    *)
(* 63-67, 78-84).                                                          *)
THEOREM MembersAlwaysKnowEachOther == Spec => []MembersKnowEachOther
<1>1. KnowInv => MembersKnowEachOther
  BY DEF KnowInv, KnowTable, MembersKnowEachOther
<1> QED
  BY <1>1, KnowInvariant, PTL

-----------------------------------------------------------------------------
(* The lines among the messages of a mailbox.                              *)

(* A set of naturals with 0 and every successor is all of them.            *)
LEMMA Induction ==
    ASSUME NEW S \in SUBSET Nat, 0 \in S, \A n \in S : n + 1 \in S
    PROVE  \A n \in Nat : n \in S
<1> SUFFICES ASSUME Nat \ S # {} PROVE FALSE
  OBVIOUS
<1> DEFINE Below == {p \in Nat \X Nat : p[1] < p[2]}
<1>0. IsWellFoundedOn(Below, Nat)
  <2>1. Below = OpToRel(<, Nat)
    BY DEF OpToRel
  <2> HIDE DEF Below
  <2> QED
    BY <2>1, NatLessThanWellFounded, Zenon
<1>1. PICK n \in Nat \ S : \A m \in Nat \ S : ~(<<m, n>> \in Below)
  <2> HIDE DEF Below
  <2>1. Nat \ S \subseteq Nat
    OBVIOUS
  <2>2. \A R, X, T : IsWellFoundedOn(R, X) /\ T \subseteq X /\ T # {}
            => \E x \in T : \A y \in T : ~(<<y, x>> \in R)
    BY WFMin, Zenon
  <2> QED
    BY <1>0, <2>1, <2>2, Zenon
<1>2. n # 0 /\ n - 1 \in Nat /\ (n - 1) + 1 = n /\ n - 1 < n
  BY <1>1
<1>3. n - 1 \in S
  <2>1. <<n - 1, n>> \in Below
    BY <1>2
  <2> HIDE DEF Below
  <2> QED
    BY <1>1, <1>2, <2>1
<1> QED
  BY <1>1, <1>2, <1>3

(* f[k] are the lines among the first k of q.                              *)
Selects(q, f) ==
    f = [k \in 0..Len(q) |->
            IF k = 0 THEN <<>>
            ELSE IF IsLine(q[k]) THEN Append(f[k-1], q[k]) ELSE f[k-1]]

(* There is such a function: the recursion of LinesIn goes down to 0.      *)
LEMMA SelectsExists ==
    ASSUME NEW q \in Seq(Message)
    PROVE  \E f : Selects(q, f)
<1> DEFINE Upto(n, f) ==
        f = [k \in 0..n |->
                IF k = 0 THEN <<>>
                ELSE IF IsLine(q[k]) THEN Append(f[k-1], q[k]) ELSE f[k-1]]
           S == {n \in Nat : \E f : Upto(n, f)}
<1>1. 0 \in S
  <2>1. Upto(0, [k \in 0..0 |-> <<>>])
    OBVIOUS
  <2> QED
    BY <2>1
<1>2. ASSUME NEW n \in S PROVE n + 1 \in S
  <2>1. PICK f : Upto(n, f)
    OBVIOUS
  <2> DEFINE last == IF IsLine(q[n + 1]) THEN Append(f[n], q[n + 1]) ELSE f[n]
             g == [k \in 0..(n + 1) |-> IF k = n + 1 THEN last ELSE f[k]]
  <2>2. /\ n \in Nat /\ n + 1 \in Nat /\ n + 1 # 0 /\ (n + 1) - 1 = n
        /\ \A k \in 0..(n + 1) : k # n + 1 => k \in 0..n /\ k - 1 # n + 1
        /\ \A k \in 0..(n + 1) : k # 0 => k - 1 \in 0..(n + 1)
        /\ n + 1 \in 0..(n + 1) /\ n \in 0..(n + 1) /\ n # n + 1
    OBVIOUS
  <2>3. \A k \in 0..n :
           f[k] = IF k = 0 THEN <<>>
                  ELSE IF IsLine(q[k]) THEN Append(f[k-1], q[k]) ELSE f[k-1]
    BY <2>1
  <2> HIDE DEF last
  <2>4. \A k \in 0..(n + 1) : g[k] = IF k = n + 1 THEN last ELSE f[k]
    OBVIOUS
  <2>5. \A k \in 0..(n + 1) :
           g[k] = IF k = 0 THEN <<>>
                  ELSE IF IsLine(q[k]) THEN Append(g[k-1], q[k]) ELSE g[k-1]
    <3> SUFFICES ASSUME NEW k \in 0..(n + 1)
                 PROVE  g[k] = IF k = 0 THEN <<>>
                               ELSE IF IsLine(q[k]) THEN Append(g[k-1], q[k])
                               ELSE g[k-1]
      OBVIOUS
    <3> HIDE DEF g
    <3>1. CASE k = n + 1
      <4>1. g[k] = last /\ g[k - 1] = f[n] /\ k # 0
        BY <2>2, <2>4, <3>1
      <4> QED
        BY <3>1, <4>1 DEF last
    <3>2. CASE k # n + 1
      <4>1. g[k] = f[k] /\ (k # 0 => g[k - 1] = f[k - 1])
        BY <2>2, <2>4, <3>2
      <4> QED
        BY <2>2, <2>3, <3>2, <4>1
    <3> QED
      BY <3>1, <3>2
  <2>6. g = [k \in 0..(n + 1) |-> g[k]]
    OBVIOUS
  <2> HIDE DEF g
  <2>7. Upto(n + 1, g)
    BY <2>5, <2>6
  <2> QED
    BY <2>2, <2>7
<1> HIDE DEF S
<1>3. S \in SUBSET Nat
  BY DEF S
<1>4. Len(q) \in S
  BY <1>1, <1>2, <1>3, Induction, LenProperties
<1> QED
  BY <1>4 DEF S, Selects

(* What LinesIn is, and what each of its steps is.                         *)
LEMMA LinesInIs ==
    ASSUME NEW q \in Seq(Message)
    PROVE  \E f : /\ LinesIn(q) = f[Len(q)] /\ f[0] = <<>>
                  /\ \A k \in 1..Len(q) :
                        f[k] = IF IsLine(q[k]) THEN Append(f[k-1], q[k])
                               ELSE f[k-1]
<1> DEFINE f == CHOOSE g : Selects(q, g)
<1>1. Selects(q, f)
  BY SelectsExists
<1>2. LinesIn(q) = f[Len(q)]
  BY DEF LinesIn, Selects
<1> HIDE DEF f
<1>3. Len(q) \in Nat
  BY LenProperties
<1>4. \A k \in 0..Len(q) :
         f[k] = IF k = 0 THEN <<>>
                ELSE IF IsLine(q[k]) THEN Append(f[k-1], q[k]) ELSE f[k-1]
  BY <1>1 DEF Selects
<1>5. 0 \in 0..Len(q) /\ \A k \in 1..Len(q) : k \in 0..Len(q) /\ k # 0
  BY <1>3
<1> QED
  BY <1>2, <1>4, <1>5


(* The same without the recursion.                                         *)
Steps(q, f) ==
    /\ f[0] = <<>>
    /\ \A k \in 1..Len(q) :
          f[k] = IF IsLine(q[k]) THEN Append(f[k-1], q[k]) ELSE f[k-1]

(* Each step holds a sequence of lines.                                    *)
LEMMA StepsType ==
    ASSUME NEW q \in Seq(Message), NEW f, Steps(q, f)
    PROVE  \A k \in 0..Len(q) : f[k] \in Seq(Lines)
<1> DEFINE S == {n \in Nat : n <= Len(q) => f[n] \in Seq(Lines)}
<1>1. Len(q) \in Nat
  BY LenProperties
<1>2. 0 \in S
  <2>1. f[0] = <<>> /\ <<>> \in Seq(Lines)
    BY DEF Steps
  <2> QED
    BY <2>1
<1>3. ASSUME NEW n \in S PROVE n + 1 \in S
  <2>1. n \in Nat /\ n + 1 \in Nat /\ (n + 1) - 1 = n
    OBVIOUS
  <2>2. CASE n + 1 <= Len(q)
    <3>1. n <= Len(q) /\ n + 1 \in 1..Len(q)
      BY <1>1, <2>1, <2>2
    <3>2. f[n] \in Seq(Lines)
      BY <3>1
    <3>3. f[n+1] = IF IsLine(q[n+1]) THEN Append(f[n], q[n+1]) ELSE f[n]
      BY <2>1, <3>1 DEF Steps
    <3>4. q[n+1] \in Message
      BY <3>1, ElementOfSeq
    <3>5. IsLine(q[n+1]) => q[n+1] \in Lines
      BY <3>4 DEF IsLine, Lines
    <3>6. f[n+1] \in Seq(Lines)
      BY <3>2, <3>3, <3>5, AppendProperties
    <3> QED
      BY <2>1, <3>6
  <2>3. CASE ~(n + 1 <= Len(q))
    BY <2>1, <2>3
  <2> QED
    BY <2>2, <2>3
<1> HIDE DEF S
<1>4. \A n \in Nat : n \in S
  BY <1>2, <1>3, Induction DEF S
<1>5. \A k \in 0..Len(q) : k \in Nat /\ k <= Len(q)
  BY <1>1
<1> QED
  BY <1>4, <1>5 DEF S

LEMMA LinesInType ==
    ASSUME NEW q \in Seq(Message)
    PROVE  LinesIn(q) \in Seq(Lines)
<1>1. PICK f : LinesIn(q) = f[Len(q)] /\ Steps(q, f)
  BY LinesInIs DEF Steps
<1>2. Len(q) \in 0..Len(q)
  BY LenProperties
<1> QED
  BY <1>1, <1>2, StepsType

LEMMA LinesInEmpty == LinesIn(<<>>) = <<>>
<1>1. <<>> \in Seq(Message) /\ Len(<<>>) = 0
  BY EmptySeq
<1> QED
  BY <1>1, LinesInIs

(* A line more at the end of the mailbox is a line more.                   *)
LEMMA LinesInAppend ==
    ASSUME NEW q \in Seq(Message), NEW m \in Message
    PROVE  LinesIn(Append(q, m)) =
               IF IsLine(m) THEN Append(LinesIn(q), m) ELSE LinesIn(q)
<1> DEFINE p == Append(q, m)
<1>1. /\ p \in Seq(Message) /\ Len(p) = Len(q) + 1 /\ Len(q) \in Nat
      /\ \A k \in 1..Len(q) : p[k] = q[k]
      /\ p[Len(q) + 1] = m
  BY AppendProperties, LenProperties
<1> HIDE DEF p
<1>2. PICK f : LinesIn(q) = f[Len(q)] /\ Steps(q, f)
  BY LinesInIs DEF Steps
<1>3. PICK g : LinesIn(p) = g[Len(p)] /\ Steps(p, g)
  BY <1>1, LinesInIs DEF Steps
<1> DEFINE S == {n \in Nat : n <= Len(q) => f[n] = g[n]}
<1>4. 0 \in S
  BY <1>2, <1>3 DEF Steps
<1>5. ASSUME NEW n \in S PROVE n + 1 \in S
  <2>1. n \in Nat /\ n + 1 \in Nat /\ (n + 1) - 1 = n
    OBVIOUS
  <2>2. CASE n + 1 <= Len(q)
    <3>1. n <= Len(q) /\ n + 1 \in 1..Len(q) /\ n + 1 \in 1..Len(p)
      BY <1>1, <2>1, <2>2
    <3>2. f[n] = g[n]
      BY <3>1
    <3>3. f[n+1] = IF IsLine(q[n+1]) THEN Append(f[n], q[n+1]) ELSE f[n]
      BY <1>2, <2>1, <3>1 DEF Steps
    <3>4. g[n+1] = IF IsLine(p[n+1]) THEN Append(g[n], p[n+1]) ELSE g[n]
      BY <1>3, <2>1, <3>1 DEF Steps
    <3> QED
      BY <1>1, <2>1, <3>1, <3>2, <3>3, <3>4
  <2>3. CASE ~(n + 1 <= Len(q))
    BY <2>1, <2>3
  <2> QED
    BY <2>2, <2>3
<1> HIDE DEF S
<1>6. Len(q) \in S
  BY <1>1, <1>4, <1>5, Induction DEF S
<1>7. f[Len(q)] = g[Len(q)]
  BY <1>1, <1>6 DEF S
<1>8. /\ Len(q) + 1 \in 1..Len(p) /\ (Len(q) + 1) - 1 = Len(q)
  BY <1>1
<1>9. g[Len(q) + 1] = IF IsLine(m) THEN Append(g[Len(q)], m) ELSE g[Len(q)]
  BY <1>1, <1>3, <1>8 DEF Steps
<1>10. LinesIn(p) = IF IsLine(m) THEN Append(LinesIn(q), m) ELSE LinesIn(q)
  BY <1>1, <1>2, <1>3, <1>7, <1>9
<1> QED
  BY <1>10 DEF p

(* The first message taken off, the rest of the lines remain.              *)
LEMMA LinesInTail ==
    ASSUME NEW q \in Seq(Message), q # <<>>
    PROVE  LinesIn(q) = (IF IsLine(Head(q)) THEN <<Head(q)>> ELSE <<>>)
                            \o LinesIn(Tail(q))
<1> DEFINE t == Tail(q)
           h == IF IsLine(Head(q)) THEN <<Head(q)>> ELSE <<>>
<1>1. /\ t \in Seq(Message) /\ Len(t) = Len(q) - 1 /\ Len(q) \in Nat
      /\ Len(q) # 0 /\ Head(q) = q[1] /\ Head(q) \in Message
      /\ \A k \in 1..Len(t) : t[k] = q[k + 1]
  BY HeadTailProperties, LenProperties, EmptySeq
<1>2. h \in Seq(Lines)
  <2>1. IsLine(Head(q)) => Head(q) \in Lines
    BY <1>1 DEF IsLine, Lines
  <2> QED
    BY <2>1
<1>3. Append(<<>>, Head(q)) = <<Head(q)>>
  OBVIOUS
<1> HIDE DEF t
<1>4. PICK f : LinesIn(q) = f[Len(q)] /\ Steps(q, f)
  BY LinesInIs DEF Steps
<1>5. PICK g : LinesIn(t) = g[Len(t)] /\ Steps(t, g)
  BY <1>1, LinesInIs DEF Steps
<1>6. f[1] = h
  <2>1. 1 \in 1..Len(q) /\ 1 - 1 = 0
    BY <1>1
  <2>2. f[1] = IF IsLine(q[1]) THEN Append(f[0], q[1]) ELSE f[0]
    BY <1>4, <2>1 DEF Steps
  <2> QED
    BY <1>1, <1>3, <1>4, <2>2 DEF Steps
<1>7. \A k \in 0..Len(t) : g[k] \in Seq(Lines)
  BY <1>1, <1>5, StepsType
<1> HIDE DEF h
<1> DEFINE S == {n \in Nat : n <= Len(t) => f[n + 1] = h \o g[n]}
<1>8. 0 \in S
  <2>1. h \o <<>> = h
    BY <1>2, ConcatEmptySeq
  <2>2. g[0] = <<>> /\ 0 + 1 = 1
    BY <1>5 DEF Steps
  <2>3. f[0 + 1] = h \o g[0]
    BY <1>6, <2>1, <2>2
  <2> QED
    BY <2>3
<1>9. ASSUME NEW n \in S PROVE n + 1 \in S
  <2>1. /\ n \in Nat /\ n + 1 \in Nat /\ (n + 1) - 1 = n
        /\ ((n + 1) + 1) - 1 = n + 1
    OBVIOUS
  <2>2. CASE n + 1 <= Len(t)
    <3>1. /\ n <= Len(t) /\ n \in 0..Len(t) /\ n + 1 \in 1..Len(t)
          /\ (n + 1) + 1 \in 1..Len(q)
      BY <1>1, <2>1, <2>2
    <3>2. f[n+1] = h \o g[n]
      BY <3>1
    <3> DEFINE m == t[n+1]
    <3>3. m = q[(n+1)+1] /\ m \in Message
      BY <1>1, <3>1, ElementOfSeq
    <3> HIDE DEF m
    <3>4. f[(n+1)+1] = IF IsLine(m) THEN Append(f[n+1], m) ELSE f[n+1]
      BY <1>4, <2>1, <3>1, <3>3 DEF Steps
    <3>5. g[n+1] = IF IsLine(m) THEN Append(g[n], m) ELSE g[n]
      BY <1>5, <2>1, <3>1 DEF Steps, m
    <3>6. f[(n+1)+1] = h \o g[n+1]
      <4>1. CASE IsLine(m)
        <5>1. m \in Lines
          BY <3>3, <4>1 DEF IsLine, Lines
        <5>2. g[n] \in Seq(Lines) /\ h \o g[n] \in Seq(Lines)
          BY <1>2, <1>7, <3>1, ConcatProperties
        <5>3. /\ Append(h \o g[n], m) = (h \o g[n]) \o <<m>>
              /\ Append(g[n], m) = g[n] \o <<m>>
          BY <5>1, <5>2, AppendIsConcat
        <5>4. (h \o g[n]) \o <<m>> = h \o (g[n] \o <<m>>)
          <6>1. <<m>> \in Seq(Lines)
            BY <5>1
          <6>2. PICK s, u, v : s = h /\ u = g[n] /\ v = <<m>>
            OBVIOUS
          <6>3. s \in Seq(Lines) /\ u \in Seq(Lines) /\ v \in Seq(Lines)
            BY <1>2, <5>2, <6>1, <6>2
          <6>4. (s \o u) \o v = s \o (u \o v)
            BY <6>3, ConcatAssociative
          <6> QED
            BY <6>2, <6>4
        <5> QED
          BY <3>2, <3>4, <3>5, <4>1, <5>3, <5>4
      <4>2. CASE ~IsLine(m)
        BY <3>2, <3>4, <3>5, <4>2
      <4> QED
        BY <4>1, <4>2
    <3> QED
      BY <2>1, <3>6
  <2>3. CASE ~(n + 1 <= Len(t))
    BY <2>1, <2>3
  <2> QED
    BY <2>2, <2>3
<1> HIDE DEF S
<1>10. Len(t) \in Nat /\ Len(t) + 1 = Len(q)
  BY <1>1
<1>11. Len(t) \in S
  BY <1>8, <1>9, <1>10, Induction DEF S
<1>12. LinesIn(q) = h \o LinesIn(t)
  BY <1>4, <1>5, <1>10, <1>11 DEF S
<1> QED
  BY <1>12 DEF h, t

-----------------------------------------------------------------------------
(* How the lines on their way to a client change.                          *)

(* A stream is made of lines.                                              *)
LEMMA StreamType ==
    ASSUME TypeInv, NEW c \in Clients
    PROVE  /\ Stream(c) \in Seq(Lines) /\ lines[c] \in Seq(Lines)
           /\ queue[c] \in Seq(Message) /\ LinesIn(queue[c]) \in Seq(Lines)
<1>1. queue[c] \in Seq(Message) /\ lines[c] \in Seq(Lines)
  BY MTypesHas DEF TypeInv, TypeOK
<1>2. LinesIn(queue[c]) \in Seq(Lines)
  BY <1>1, LinesInType
<1> QED
  BY <1>1, <1>2, ConcatProperties DEF Stream

(* No line is added, and none is lost.                                     *)
SameStreams == \A c \in Clients : Stream(c)' = Stream(c)

LEMMA QuietStreams == queue' = queue /\ lines' = lines => SameStreams
  BY DEF SameStreams, Stream

(* What happens to the messages to the server is no concern of theirs.     *)
LEMMA ElsewhereStreams ==
    ASSUME lines' = lines, \A c \in Clients : queue'[c] = queue[c]
    PROVE  SameStreams
  BY DEF SameStreams, Stream

(* A line sent to c is the last of its stream; the others have no share in *)
(* it, and no other message counts.                                        *)
LEMMA SendStreams ==
    ASSUME TypeInv, NEW t \in MTypes, NEW m \in Message, Send(t, m),
           lines' = lines
    PROVE  \A c \in Clients :
              Stream(c)' = IF c = t /\ IsLine(m) THEN Append(Stream(c), m)
                           ELSE Stream(c)
<1> SUFFICES ASSUME NEW c \in Clients
             PROVE  Stream(c)' = IF c = t /\ IsLine(m)
                                 THEN Append(Stream(c), m) ELSE Stream(c)
  OBVIOUS
<1>1. /\ queue \in [MTypes -> Seq(Message)] /\ c \in MTypes
      /\ queue' = [queue EXCEPT ![t] = Append(@, m)]
  BY MTypesHas DEF TypeInv, TypeOK, Send
<1>2. CASE c # t
  <2>1. queue'[c] = queue[c]
    BY <1>1, <1>2
  <2> QED
    BY <1>2, <2>1 DEF Stream
<1>3. CASE c = t
  <2>1. queue'[c] = Append(queue[c], m)
    BY <1>1, <1>3
  <2>2. PICK q, after : q = queue[c] /\ after = lines[c]
    OBVIOUS
  <2>3. q \in Seq(Message) /\ after \in Seq(Lines) /\ LinesIn(q) \in Seq(Lines)
    BY <2>2, StreamType
  <2>4. LinesIn(Append(q, m)) =
            IF IsLine(m) THEN Append(LinesIn(q), m) ELSE LinesIn(q)
    BY <2>3, LinesInAppend
  <2>5. Stream(c) = after \o LinesIn(q)
    BY <2>2 DEF Stream
  <2>6. Stream(c)' = after \o LinesIn(Append(q, m))
    BY <2>1, <2>2 DEF Stream
  <2>7. IsLine(m) =>
            after \o Append(LinesIn(q), m) = Append(after \o LinesIn(q), m)
    <3> SUFFICES ASSUME IsLine(m)
                 PROVE  after \o Append(LinesIn(q), m) =
                            Append(after \o LinesIn(q), m)
      OBVIOUS
    <3>1. m \in Lines
      BY DEF IsLine, Lines
    <3>2. PICK s : s = LinesIn(q)
      OBVIOUS
    <3>3. s \in Seq(Lines) /\ after \o s \in Seq(Lines) /\ <<m>> \in Seq(Lines)
      BY <2>3, <3>1, <3>2, ConcatProperties
    <3>4. /\ Append(s, m) = s \o <<m>>
          /\ Append(after \o s, m) = (after \o s) \o <<m>>
      BY <3>1, <3>3, AppendIsConcat
    <3>5. (after \o s) \o <<m>> = after \o (s \o <<m>>)
      <4>1. PICK u : u = <<m>>
        OBVIOUS
      <4>2. u \in Seq(Lines)
        BY <3>3, <4>1
      <4>3. (after \o s) \o u = after \o (s \o u)
        <5>1. after \in Seq(Lines) /\ s \in Seq(Lines)
          BY <2>3, <3>3
        <5> QED
          BY <4>2, <5>1, ConcatAssociative
      <4> QED
        BY <4>1, <4>3
    <3> QED
      BY <3>2, <3>4, <3>5
  <2> QED
    BY <1>3, <2>4, <2>5, <2>6, <2>7
<1> QED
  BY <1>2, <1>3

(* A client that reads its mailbox moves the first line of it to the end   *)
(* of those it has received.                                               *)
LEMMA ReadStreams ==
    ASSUME TypeInv, NEW c \in Clients, Receive(c),
           lines' = IF IsLine(Head(queue[c]))
                    THEN [lines EXCEPT ![c] = Append(@, Head(queue[c]))]
                    ELSE lines
    PROVE  SameStreams
<1>1. /\ queue \in [MTypes -> Seq(Message)] /\ Clients \subseteq MTypes
      /\ queue' = [queue EXCEPT ![c] = Tail(@)] /\ queue[c] # <<>>
      /\ lines \in [Clients -> Seq(Lines)]
  BY MTypesHas DEF TypeInv, TypeOK, Receive
<1>2. ASSUME NEW d \in Clients, d # c PROVE Stream(d)' = Stream(d)
  <2>1. queue'[d] = queue[d] /\ lines'[d] = lines[d]
    BY <1>1, <1>2
  <2> QED
    BY <2>1 DEF Stream
<1>3. Stream(c)' = Stream(c)
  <2>1. PICK q, had, m : q = queue[c] /\ had = lines[c] /\ m = Head(q)
    OBVIOUS
  <2>2. /\ q \in Seq(Message) /\ q # <<>> /\ had \in Seq(Lines)
        /\ m \in Message /\ Tail(q) \in Seq(Message)
    BY <1>1, <2>1, HeadTailProperties
  <2>3. queue'[c] = Tail(q)
    BY <1>1, <2>1
  <2>4. lines'[c] = IF IsLine(m) THEN Append(had, m) ELSE had
    BY <1>1, <2>1
  <2> DEFINE h == IF IsLine(m) THEN <<m>> ELSE <<>>
  <2>5. PICK s : s = LinesIn(Tail(q))
    OBVIOUS
  <2>6. s \in Seq(Lines)
    BY <2>2, <2>5, LinesInType
  <2>7. LinesIn(q) = h \o s
    BY <2>1, <2>2, <2>5, LinesInTail
  <2>8. h \in Seq(Lines)
    <3>1. IsLine(m) => m \in Lines
      BY <2>2 DEF IsLine, Lines
    <3> QED
      BY <3>1
  <2>9. lines'[c] = had \o h
    <3>1. CASE IsLine(m)
      <4>1. m \in Lines
        BY <2>2, <3>1 DEF IsLine, Lines
      <4> QED
        BY <2>2, <2>4, <3>1, <4>1, AppendIsConcat
    <3>2. CASE ~IsLine(m)
      <4>1. had \o <<>> = had
        BY <2>2, ConcatEmptySeq
      <4> QED
        BY <2>4, <3>2, <4>1
    <3> QED
      BY <3>1, <3>2
  <2>10. (had \o h) \o s = had \o (h \o s)
    <3> HIDE DEF h
    <3> QED
      BY <2>2, <2>6, <2>8, ConcatAssociative
  <2>11. Stream(c) = had \o (h \o s)
    BY <2>1, <2>7 DEF Stream
  <2>12. Stream(c)' = (had \o h) \o s
    BY <2>3, <2>5, <2>9 DEF Stream
  <2> HIDE DEF h
  <2> QED
    BY <2>10, <2>11, <2>12, Zenon
<1> QED
  BY <1>2, <1>3 DEF SameStreams

(* What a client does leaves every stream as it is.                        *)
LEMMA ClientStreams ==
    ASSUME TypeInv, NEW c \in Clients,
           UserActs(c) \/ MainRuns(c) \/ Receiver(c)
    PROVE  SameStreams
<1>1. ASSUME Receiver(c) PROVE SameStreams
  <2>1. CASE RcvTest(c) \/ RcvNothing(c)
    BY <2>1, QuietStreams DEF RcvTest, RcvNothing
  <2>2. CASE RcvJoin(c)
    BY <2>2, ReadStreams DEF RcvJoin, IsLine
  <2>3. CASE RcvLeave(c)
    BY <2>3, ReadStreams DEF RcvLeave, IsLine
  <2>4. CASE RcvLine(c)
    BY <2>4, ReadStreams DEF RcvLine
  <2>5. CASE RcvExit(c)
    BY <2>5, ReadStreams DEF RcvExit, IsLine
  <2> QED
    BY <1>1, <2>1, <2>2, <2>3, <2>4, <2>5 DEF Receiver
<1>2. CASE \/ Boot(c) \/ SendLine(c) \/ SendExit(c) \/ SendLeave(c)
           \/ SendQuit(c)
  <2>1. typed[c] \in Nat
    BY DEF TypeInv, TypeOK
  <2>2. PICK t \in MTypes, m \in Message :
            /\ ClientSend(t, m) /\ lines' = lines
            /\ t \in {1, 2} \/ m.kind = "exit"
    BY <1>2, <2>1, MTypesHas, MessageType
    DEF Boot, SendLine, SendExit, SendLeave, SendQuit, Exit
  <2>3. \A d \in Clients : ~(d = t /\ IsLine(m))
    BY <2>2, ClientsAssumption DEF IsLine
  <2>4. CASE Send(t, m)
    BY <2>2, <2>3, <2>4, SendStreams DEF SameStreams
  <2>5. CASE queue' = queue
    BY <2>2, <2>5, QuietStreams
  <2> QED
    BY <2>2, <2>4, <2>5 DEF ClientSend
<1>3. CASE TypeLine(c) \/ TypeExit(c) \/ JoinThreads(c) \/ JoinFaults(c)
           \/ Killed(c)
  BY <1>3, QuietStreams
  DEF TypeLine, TypeExit, JoinThreads, JoinFaults, Killed
<1> QED
  BY <1>1, <1>2, <1>3 DEF UserActs, MainRuns

-----------------------------------------------------------------------------
(* The history and the live lines fit together.                            *)

(* The beginning of t up to a, and the stretch from b to k.                *)
Pieces(t, a, b, k) ==
    [i \in 1..(a + (k + 1 - b)) |->
        IF i <= a THEN t[i] ELSE t[b + (i - a - 1)]]

(* u begins as t does, up to n.                                            *)
Agree(t, u, n) == \A i \in 1..n : u[i] = t[i]

(* Sequences that agree have the same pieces.                              *)
LEMMA PiecesSame ==
    ASSUME NEW t, NEW u, NEW n \in Nat, Agree(t, u, n),
           NEW a \in 0..n, NEW b \in 1..(n + 1), NEW k \in 0..n
    PROVE  Pieces(u, a, b, k) = Pieces(t, a, b, k)
<1> USE DEF Agree
<1>1. ASSUME NEW i \in 1..(a + (k + 1 - b))
      PROVE  (IF i <= a THEN u[i] ELSE u[b + (i - a - 1)]) =
             (IF i <= a THEN t[i] ELSE t[b + (i - a - 1)])
  <2>1. CASE i <= a
    <3>1. i \in 1..n
      BY <2>1
    <3> QED
      BY <2>1, <3>1
  <2>2. CASE ~(i <= a)
    <3>1. b + (i - a - 1) \in 1..n
      BY <2>2
    <3> QED
      BY <2>2, <3>1
  <2> QED
    BY <2>1, <2>2
<1> QED
  BY <1>1 DEF Pieces

(* The stretch grows at its end.                                           *)
LEMMA PiecesAppend ==
    ASSUME NEW S, NEW t \in Seq(S), NEW a \in 0..Len(t), NEW k \in Nat,
           k + 1 <= Len(t), NEW b \in 1..(k + 1)
    PROVE  Append(Pieces(t, a, b, k), t[k + 1]) = Pieces(t, a, b, k + 1)
<1> DEFINE n == a + (k + 1 - b)
           p == Pieces(t, a, b, k)
           e == Pieces(t, a, b, k + 1)
<1>1. Len(t) \in Nat /\ DOMAIN t = 1..Len(t) /\ \A i \in 1..Len(t) : t[i] \in S
  BY LenProperties, ElementOfSeq
<1>2. n \in Nat /\ a + ((k + 1) + 1 - b) = n + 1
  BY <1>1
<1>3. \A i \in 1..n :
          /\ i <= a => i \in 1..Len(t)
          /\ ~(i <= a) => b + (i - a - 1) \in 1..Len(t)
  BY <1>1
<1>4. /\ ~(n + 1 <= a) /\ b + ((n + 1) - a - 1) = k + 1
  BY <1>1
<1>5. \A i \in 1..n : p[i] = IF i <= a THEN t[i] ELSE t[b + (i - a - 1)]
  BY DEF Pieces
<1>6. p = [i \in 1..n |-> p[i]]
  BY DEF Pieces
<1>7. \A i \in 1..(n + 1) :
          e[i] = IF i <= a THEN t[i] ELSE t[b + (i - a - 1)]
  BY <1>2 DEF Pieces
<1>8. e = [i \in 1..(n + 1) |-> e[i]]
  BY <1>2 DEF Pieces
<1> HIDE DEF n, p, e
<1>9. \A i \in 1..n : p[i] \in S
  BY <1>1, <1>3, <1>5
<1>10. p \in Seq(S) /\ Len(p) = n
  <2>1. p \in [1..n -> S]
    BY <1>6, <1>9
  <2> QED
    BY <1>2, <2>1, SeqDef, LenProperties
<1>11. t[k + 1] \in S
  BY <1>1
<1> DEFINE q == Append(p, t[k + 1])
<1>12. /\ q \in Seq(S) /\ Len(q) = n + 1 /\ q[n + 1] = t[k + 1]
       /\ \A i \in 1..n : q[i] = p[i]
  BY <1>10, <1>11, AppendProperties
<1>13. q = [i \in 1..(n + 1) |-> q[i]]
  BY <1>12
<1> HIDE DEF q
<1>14. \A i \in 1..(n + 1) : q[i] = e[i]
  <2> SUFFICES ASSUME NEW i \in 1..(n + 1) PROVE q[i] = e[i]
    OBVIOUS
  <2>1. CASE i = n + 1
    <3>1. e[n + 1] = t[b + ((n + 1) - a - 1)]
      BY <1>2, <1>4, <1>7
    <3> QED
      BY <1>4, <1>12, <2>1, <3>1
  <2>2. CASE i # n + 1
    <3>1. i \in 1..n
      BY <1>2, <2>2
    <3> QED
      BY <1>5, <1>7, <1>12, <3>1
  <2> QED
    BY <2>1, <2>2
<1>15. q = e
  BY <1>8, <1>13, <1>14
<1> QED
  BY <1>15 DEF q, p, e

(* A beginning alone is a stretch from 1.                                  *)
LEMMA PiecesBegin ==
    ASSUME NEW t, NEW a \in Nat, NEW b \in Nat
    PROVE  Pieces(t, 0, 1, a) = Pieces(t, a, b + 1, b)
<1>1. 0 + (a + 1 - 1) = a /\ a + (b + 1 - (b + 1)) = a
  OBVIOUS
<1>2. \A i \in 1..a :
          i <= a /\ ~(i <= 0) /\ 1 + (i - 0 - 1) = i
  OBVIOUS
<1> QED
  BY <1>1, <1>2 DEF Pieces

(* At first there is no piece.                                             *)
LEMMA PiecesEmpty == \A t : Pieces(t, 0, 1, 0) = <<>>
<1>1. 0 + (0 + 1 - 1) = 0
  OBVIOUS
<1>2. \A t : Pieces(t, 0, 1, 0) =
          [i \in {} |-> IF i <= 0 THEN t[i] ELSE t[1 + (i - 0 - 1)]]
  BY <1>1 DEF Pieces
<1> QED
  BY <1>2

(* The two pieces as the property names them.                              *)
LEMMA PiecesAreSubSeqs ==
    ASSUME NEW S, NEW t \in Seq(S), NEW a \in 0..Len(t), NEW k \in 0..Len(t),
           NEW b \in 1..(k + 1)
    PROVE  Pieces(t, a, b, k) = SubSeq(t, 1, a) \o SubSeq(t, b, k)
<1> DEFINE u == SubSeq(t, 1, a)
           v == SubSeq(t, b, k)
<1>1. Len(t) \in Nat /\ DOMAIN t = 1..Len(t) /\ \A i \in 1..Len(t) : t[i] \in S
  BY LenProperties, ElementOfSeq
<1>2. /\ u \in Seq(S) /\ Len(u) = a
      /\ \A i \in 1..a : u[i] = t[i]
  <2>1. u = [i \in 1..a |-> t[i]]
    BY <1>1
  <2>2. \A i \in 1..a : t[i] \in S
    BY <1>1
  <2> QED
    BY <2>1, <2>2
<1>3. /\ v \in Seq(S) /\ Len(v) = k + 1 - b
      /\ \A i \in 1..(k + 1 - b) : v[i] = t[b + i - 1]
  <2>1. v = [i \in 1..(k + 1 - b) |-> t[b + i - 1]]
    BY <1>1
  <2>2. \A i \in 1..(k + 1 - b) : t[b + i - 1] \in S
    BY <1>1
  <2>3. k + 1 - b \in Nat
    BY <1>1
  <2> HIDE DEF v
  <2> QED
    BY <2>1, <2>2, <2>3
<1> HIDE DEF u, v
<1>4. /\ u \o v \in Seq(S) /\ Len(u \o v) = a + (k + 1 - b)
      /\ \A i \in 1..(a + (k + 1 - b)) :
            (u \o v)[i] = IF i <= a THEN u[i] ELSE v[i - a]
  <2>1. /\ u \o v \in Seq(S) /\ Len(u \o v) = Len(u) + Len(v)
        /\ \A i \in 1..(Len(u) + Len(v)) :
              (u \o v)[i] = IF i <= Len(u) THEN u[i] ELSE v[i - Len(u)]
    BY <1>2, <1>3, ConcatProperties
  <2> QED
    BY <1>2, <1>3, <2>1
<1>5. u \o v = [i \in 1..(a + (k + 1 - b)) |-> (u \o v)[i]]
  <2>1. PICK w : w = u \o v
    OBVIOUS
  <2>2. w \in Seq(S) /\ Len(w) = a + (k + 1 - b)
    BY <1>4, <2>1
  <2>3. w = [i \in 1..(a + (k + 1 - b)) |-> w[i]]
    BY <2>2
  <2> QED
    BY <2>1, <2>3
<1>6. ASSUME NEW i \in 1..(a + (k + 1 - b))
      PROVE  (u \o v)[i] = IF i <= a THEN t[i] ELSE t[b + (i - a - 1)]
  <2>1. CASE i <= a
    <3>1. i \in 1..a
      BY <2>1
    <3> QED
      BY <1>2, <1>4, <2>1, <3>1
  <2>2. CASE ~(i <= a)
    <3>1. i - a \in 1..(k + 1 - b) /\ b + (i - a) - 1 = b + (i - a - 1)
      BY <1>1, <2>2
    <3> QED
      BY <1>3, <1>4, <2>2, <3>1
  <2> QED
    BY <2>1, <2>2
<1>7. Pieces(t, a, b, k) = u \o v
  BY <1>5, <1>6 DEF Pieces
<1> QED
  BY <1>7 DEF u, v

(* How many of the lines taken were sent to the i-th of the table.         *)
Sent(i) == Len(messages) +
    IF msgPc = "add" \/ (msgPc = "cast" /\ i < msgI) THEN 1 ELSE 0

(* How many lines the loop over the history has sent.                      *)
Replayed == IF memI > Len(members) THEN memI - Len(members) - 1 ELSE 0

Sharing(c) == memPc \in {"share", "add"} /\ memMsg.from = c

(* Nobody before the end of the table is skipped, and the members thread   *)
(* broadcasts no lines.                                                    *)
Casts ==
    /\ msgPc = "cast" => msgI \in 1..(Len(members) + 1)
    /\ memPc = "cast" => memMsg.kind \in {"join", "leave"}

(* Who is not registered gets no line, unless the history is shared.       *)
Silent ==
    \A c \in Clients : joined[c] = NotYet =>
        ~Holds(members, c) /\ (Sharing(c) \/ Stream(c) = <<>>)

(* Then it gets the beginning of what is kept, at the end all that was     *)
(* kept when its join was taken up.                                        *)
Replay ==
    \A c \in Clients : Sharing(c) =>
        /\ joined[c] = NotYet
        /\ asked[c] \in 0..Len(messages)
        /\ memPc = "share" => /\ Replayed <= Len(messages)
                              /\ Stream(c) = Pieces(messages, 0, 1, Replayed)
        /\ memPc = "add" => \E a \in asked[c]..Len(messages) :
                               Stream(c) = Pieces(messages, 0, 1, a)

(* Who is registered has a beginning, and every line from some b on that   *)
(* was sent to its place of the table.                                     *)
Live ==
    \A c \in Clients : \A i \in DOMAIN members :
        members[i].id = c /\ joined[c] # NotYet =>
          /\ asked[c] \in Nat /\ joined[c] \in Nat /\ joined[c] <= Len(Taken)
          /\ \E a \in asked[c]..joined[c], b \in 1..(joined[c] + 1) :
                /\ a < b /\ b <= Sent(i) + 1
                /\ Stream(c) = Pieces(Taken, a, b, Sent(i))

GapInv == Serving => Casts /\ Silent /\ Replay /\ Live

(* The lines kept, and perhaps one more.                                   *)
LEMMA TakenOf ==
    ASSUME NEW kept \in Seq(Lines), NEW pc, NEW m,
           pc \in {"cast", "add"} => m \in Lines,
           NEW t, t = kept \o IF pc \in {"cast", "add"} THEN <<m>> ELSE <<>>
    PROVE  /\ t \in Seq(Lines) /\ Len(kept) \in Nat
           /\ Len(t) = IF pc \in {"cast", "add"} THEN Len(kept) + 1
                       ELSE Len(kept)
           /\ \A i \in 1..Len(kept) : t[i] = kept[i]
           /\ pc \in {"cast", "add"} => t[Len(kept) + 1] = m
<1>1. Len(kept) \in Nat
  BY LenProperties
<1>2. CASE pc \in {"cast", "add"}
  <2>1. t = Append(kept, m)
    BY <1>2, AppendIsConcat
  <2> QED
    BY <1>1, <1>2, <2>1, AppendProperties
<1>3. CASE ~(pc \in {"cast", "add"})
  <2>1. t = kept
    BY <1>3, ConcatEmptySeq
  <2> QED
    BY <1>1, <1>3, <2>1
<1> QED
  BY <1>2, <1>3

LEMMA TakenIs ==
    ASSUME TypeInv
    PROVE  /\ Taken \in Seq(Lines) /\ Len(messages) \in Nat
           /\ Len(Taken) = IF msgPc \in {"cast", "add"} THEN Len(messages) + 1
                           ELSE Len(messages)
           /\ \A i \in 1..Len(messages) : Taken[i] = messages[i]
           /\ msgPc \in {"cast", "add"} => Taken[Len(messages) + 1] = msgMsg
<1>1. /\ messages \in Seq(Lines)
      /\ msgPc \in {"cast", "add"} => msgMsg \in Lines
  BY DEF TypeInv, TypeOK, Held
<1>2. PICK kept, pc, m, t :
          kept = messages /\ pc = msgPc /\ m = msgMsg /\ t = Taken
  OBVIOUS
<1>3. t = kept \o IF pc \in {"cast", "add"} THEN <<m>> ELSE <<>>
  BY <1>2 DEF Taken
<1> QED
  BY <1>1, <1>2, <1>3, TakenOf

(* What was sent is at least all that is kept, at most all that was taken. *)
LEMMA SentIs ==
    ASSUME TypeInv, NEW i \in DOMAIN members
    PROVE  Sent(i) \in Nat /\ Sent(i) \in Len(messages)..Len(Taken)
<1>1. CASE msgPc = "add" \/ (msgPc = "cast" /\ i < msgI)
  BY <1>1, TakenIs DEF Sent
<1>2. CASE ~(msgPc = "add" \/ (msgPc = "cast" /\ i < msgI))
  <2>1. Sent(i) = Len(messages) + 0
    BY <1>2 DEF Sent
  <2>2. /\ Len(messages) <= Len(Taken)
        /\ Len(messages) \in Nat /\ Len(Taken) \in Nat
    BY TakenIs
  <2> QED
    BY <2>1, <2>2
<1> QED
  BY <1>1, <1>2

(* The table keeps its length and its pids.                                *)
SameTable ==
    /\ DOMAIN members' = DOMAIN members /\ Len(members') = Len(members)
    /\ \A i \in DOMAIN members : members'[i].id = members[i].id

(* What the parts of the invariant need to survive a step.                 *)
LEMMA SilentKeeps ==
    ASSUME Silent, SameStreams, SameTable, joined' = joined,
           \A c \in Clients : Sharing(c) => Sharing(c)'
    PROVE  Silent'
  BY DEF Silent, SameStreams, SameTable, Holds

LEMMA ReplayKeeps ==
    ASSUME Replay, SameStreams, UNCHANGED <<messages, memPc, asked, joined>>,
           \A c \in Clients : Sharing(c)' => Sharing(c), Replayed' = Replayed
    PROVE  Replay'
<1> SUFFICES ASSUME NEW c \in Clients, Sharing(c)'
             PROVE  /\ joined'[c] = NotYet
                    /\ asked'[c] \in 0..Len(messages')
                    /\ memPc' = "share" =>
                          /\ Replayed' <= Len(messages')
                          /\ Stream(c)' = Pieces(messages', 0, 1, Replayed')
                    /\ memPc' = "add" =>
                          \E a \in asked'[c]..Len(messages') :
                              Stream(c)' = Pieces(messages', 0, 1, a)
  BY DEF Replay
<1>1. Stream(c)' = Stream(c) /\ Sharing(c)
  BY DEF SameStreams
<1> QED
  BY <1>1 DEF Replay

LEMMA LiveKeeps ==
    ASSUME Live, SameStreams, SameTable, joined' = joined, Taken' = Taken,
           \A c \in Clients : joined[c] # NotYet => asked'[c] = asked[c],
           \A i \in DOMAIN members : Sent(i)' = Sent(i)
    PROVE  Live'
<1> SUFFICES ASSUME NEW c \in Clients, NEW i \in DOMAIN members',
                    members'[i].id = c, joined'[c] # NotYet
             PROVE  /\ asked'[c] \in Nat /\ joined'[c] \in Nat
                    /\ joined'[c] <= Len(Taken')
                    /\ \E a \in asked'[c]..joined'[c],
                          b \in 1..(joined'[c] + 1) :
                          /\ a < b /\ b <= Sent(i)' + 1
                          /\ Stream(c)' = Pieces(Taken', a, b, Sent(i)')
  BY DEF Live
<1>1. /\ Stream(c)' = Stream(c) /\ i \in DOMAIN members /\ members[i].id = c
      /\ Sent(i)' = Sent(i) /\ asked'[c] = asked[c] /\ joined[c] # NotYet
  BY DEF SameStreams, SameTable
<1> HIDE DEF SameTable, Sent
<1> QED
  BY <1>1 DEF Live

(* A step that leaves the server alone, but for what a mailbox holds.      *)
LEMMA GapQuiet ==
    ASSUME GapInv, SameStreams,
           UNCHANGED <<members, messages, memVars, msgVars, history>>
    PROVE  GapInv'
<1> SUFFICES ASSUME Serving PROVE (Casts /\ Silent /\ Replay /\ Live)'
  BY DEF GapInv, Serving, memVars
<1> USE DEF memVars, msgVars, history
<1>1. Casts /\ Silent /\ Replay /\ Live
  BY DEF GapInv
<1>2. SameTable
  BY DEF SameTable
<1>3. /\ \A c \in Clients : Sharing(c)' <=> Sharing(c)
      /\ Replayed' = Replayed /\ Taken' = Taken
      /\ \A i \in DOMAIN members : Sent(i)' = Sent(i)
  BY DEF Sharing, Replayed, Taken, Sent
<1>4. Casts'
  BY <1>1 DEF Casts
<1> QED
  BY <1>1, <1>2, <1>3, <1>4, SilentKeeps, ReplayKeeps, LiveKeeps

(* A step of the members thread with no client in its hands after it.      *)
LEMMA GapMembersQuiet ==
    ASSUME TypeInv, GapInv, SameStreams, SameTable, Serving,
           memPc \notin {"share", "add"},
           memPc' \in {"lock", "cast", "recv", "reset"},
           memPc' = "cast" => memMsg'.kind \in {"join", "leave"},
           UNCHANGED <<messages, msgVars, history>>
    PROVE  GapInv'
<1>1. Casts /\ Silent /\ Replay /\ Live
  BY DEF GapInv
<1>2. /\ \A c \in Clients : ~Sharing(c) /\ ~Sharing(c)'
      /\ Taken' = Taken
      /\ \A i \in DOMAIN members : Sent(i)' = Sent(i)
  BY DEF Sharing, Taken, Sent, msgVars
<1>3. Casts'
  BY <1>1 DEF Casts, msgVars, SameTable
<1>4. Replay'
  BY <1>2 DEF Replay
<1> QED
  BY <1>1, <1>2, <1>3, <1>4, SilentKeeps, LiveKeeps DEF GapInv, history

(* A join or a leave is taken from the queue.                              *)
LEMMA GapReceive == ASSUME TypeInv, GapInv, MemReceive PROVE GapInv'
<1>1. lines' = lines /\ \A c \in Clients : queue'[c] = queue[c]
  BY ClientsAssumption, MTypesHas
  DEF MemReceive, Receive, client, TypeInv, TypeOK
<1>2. SameTable
  BY DEF MemReceive, server, SameTable
<1> QED
  BY <1>1, <1>2, ElsewhereStreams, GapMembersQuiet
  DEF MemReceive, server, Serving

(* Nobody leaves the table.                                                *)
LEMMA GapLeave == ASSUME TypeInv, GapInv, MemLeave PROVE GapInv'
<1>1. SameStreams
  BY QuietStreams DEF MemLeave, client
<1>2. SameTable
  <2>1. /\ members \in Seq(Entry(Clients))
        /\ members' = SetOffline(members, memMsg.from)
    BY DEF MemLeave, TypeInv, TypeOK
  <2>2. /\ members' \in Seq(Entry(Clients)) /\ Len(members') = Len(members)
        /\ \A i \in 1..Len(members) : members'[i].id = members[i].id
    BY <2>1, SetOfflineType
  <2> QED
    BY <2>1, <2>2, LenProperties DEF SameTable
<1> QED
  BY <1>1, <1>2, GapMembersQuiet DEF MemLeave, Serving

(* Who asks is not registered, so it has no line yet.                      *)
LEMMA GapJoin ==
    ASSUME TypeInv, MembershipInv, GapInv, MemJoin PROVE GapInv'
<1>1. SameStreams
  BY QuietStreams DEF MemJoin, client
<1>2. /\ members' = members /\ messages' = messages /\ joined' = joined
      /\ memPc = "lock" /\ memPc' = "share" /\ memI' = 1
      /\ memMsg' = memMsg /\ memMsg \in Message /\ memMsg.kind = "join"
      /\ memMsg.from \in Clients
      /\ asked' = [asked EXCEPT ![memMsg.from] = Len(messages)]
      /\ UNCHANGED msgVars
  BY DEF MemJoin, TypeInv, Held, Message
<1>3. /\ Casts /\ Silent /\ Live /\ JoinOnce /\ Known
      /\ \A c \in Clients : ~Sharing(c)
  BY <1>2 DEF GapInv, Serving, MembershipInv, Sharing
<1>4. joined[memMsg.from] = NotYet
  <2>1. Handling("join", memMsg.from)
    BY <1>2 DEF Handling, About
  <2>2. ~Holds(members, memMsg.from)
    BY <1>2, <1>3, <2>1 DEF JoinOnce
  <2> QED
    BY <1>2, <1>3, <2>2 DEF Known
<1>5. /\ Taken' = Taken /\ \A i \in DOMAIN members : Sent(i)' = Sent(i)
      /\ SameTable /\ Casts'
  BY <1>2, <1>3 DEF Taken, Sent, SameTable, Casts, msgVars
<1>6. asked \in [Clients -> Nat \cup {NotYet}]
  BY DEF TypeInv, TypeOK
<1>7. Live'
  <2>1. \A c \in Clients : joined[c] # NotYet => asked'[c] = asked[c]
    BY <1>2, <1>4, <1>6
  <2> QED
    BY <1>1, <1>2, <1>3, <1>5, <2>1, LiveKeeps
<1>8. Silent'
  BY <1>1, <1>2, <1>3, <1>5, SilentKeeps
<1>9. Replay'
  <2> SUFFICES ASSUME NEW c \in Clients, Sharing(c)'
               PROVE  /\ joined'[c] = NotYet
                      /\ asked'[c] \in 0..Len(messages')
                      /\ Replayed' <= Len(messages')
                      /\ Stream(c)' = Pieces(messages', 0, 1, Replayed')
    BY <1>2 DEF Replay
  <2>1. c = memMsg.from
    BY <1>2 DEF Sharing
  <2>2. Len(messages) \in Nat /\ Len(members) \in Nat
    BY LenProperties DEF TypeInv, TypeOK
  <2>3. Replayed' = 0
    BY <1>2, <2>2 DEF Replayed
  <2>4. asked'[c] = Len(messages)
    BY <1>2, <1>6, <2>1
  <2>5. Stream(c)' = <<>>
    BY <1>1, <1>3, <1>4, <2>1 DEF Silent, SameStreams
  <2> QED
    BY <1>2, <1>4, <2>1, <2>2, <2>3, <2>4, <2>5, PiecesEmpty
<1> QED
  BY <1>5, <1>7, <1>8, <1>9 DEF GapInv

(* An entry of the table is shared: no line yet.                           *)
LEMMA GapShareMember == ASSUME TypeInv, GapInv, MemShareMember PROVE GapInv'
<1>1. /\ members' = members /\ messages' = messages /\ lines' = lines
      /\ memPc = "share" /\ memPc' = "share" /\ memI' = memI + 1
      /\ memI \in DOMAIN members
      /\ memMsg' = memMsg /\ memMsg \in Message /\ memMsg.from \in Clients
      /\ UNCHANGED <<msgVars, history>>
  BY DEF MemShareMember, TypeInv, TypeOK, Held, Message, server, client
<1>2. SameStreams
  <2>1. CASE queue' = queue
    BY <1>1, <2>1, QuietStreams
  <2>2. CASE Send(memMsg.from, Join(members[memI].id))
    <3>1. members[memI].id \in Clients
      BY <1>1, MemberId DEF TypeInv, TypeOK
    <3>2. /\ Join(members[memI].id) \in Message
          /\ ~IsLine(Join(members[memI].id))
      BY <3>1, MessageType DEF Join, IsLine
    <3> QED
      BY <1>1, <2>2, <3>2, MTypesHas, SendStreams DEF SameStreams
  <2> QED
    BY <2>1, <2>2 DEF MemShareMember
<1>3. Casts /\ Silent /\ Replay /\ Live
  BY <1>1 DEF GapInv, Serving
<1>4. Replayed' = Replayed
  <2>1. Len(members) \in Nat /\ memI \in 1..Len(members)
    BY <1>1, LenProperties DEF TypeInv, TypeOK
  <2>2. Replayed = 0
    BY <2>1 DEF Replayed
  <2>3. Replayed' = 0
    BY <1>1, <2>1 DEF Replayed
  <2> QED
    BY <2>2, <2>3
<1>5. /\ Taken' = Taken /\ \A i \in DOMAIN members : Sent(i)' = Sent(i)
      /\ SameTable /\ Casts' /\ \A c \in Clients : Sharing(c)' <=> Sharing(c)
  BY <1>1, <1>3 DEF Taken, Sent, SameTable, Casts, Sharing, msgVars
<1> QED
  BY <1>1, <1>2, <1>3, <1>4, <1>5, SilentKeeps, ReplayKeeps, LiveKeeps
  DEF GapInv, history

(* The next of the kept lines is sent.                                     *)
LEMMA GapShareLine == ASSUME TypeInv, GapInv, MemShareLine PROVE GapInv'
<1> DEFINE from == memMsg.from
           k == memI - Len(members)
<1>1. /\ members' = members /\ messages' = messages /\ lines' = lines
      /\ memPc = "share" /\ memPc' = "share" /\ memI' = memI + 1
      /\ memI > Len(members) /\ k \in DOMAIN messages
      /\ memMsg' = memMsg /\ memMsg \in Message /\ from \in Clients
      /\ UNCHANGED <<msgVars, history>>
      /\ Send(from, messages[k])
  BY DEF MemShareLine, TypeInv, TypeOK, Held, Message, server, client
<1>2. /\ Len(members) \in Nat /\ Len(messages) \in Nat /\ memI \in Nat
      /\ messages \in Seq(Lines) /\ k \in 1..Len(messages)
  BY <1>1, LenProperties DEF TypeInv, TypeOK
<1>3. messages[k] \in Message /\ IsLine(messages[k])
  <2>1. messages[k] \in Lines
    BY <1>2, ElementOfSeq
  <2> QED
    BY <2>1 DEF Lines, IsLine
<1>4. Casts /\ Silent /\ Replay /\ Live
  BY <1>1 DEF GapInv, Serving
<1>5. Sharing(from) /\ joined[from] = NotYet
  BY <1>1, <1>4 DEF Sharing, Replay
<1>6. Replayed + 1 = k /\ Replayed' = k /\ Replayed \in Nat
  <2>1. Replayed = memI - Len(members) - 1
    BY <1>1 DEF Replayed
  <2>2. memI + 1 > Len(members)
    BY <1>1, <1>2
  <2>3. Replayed' = (memI + 1) - Len(members) - 1
    BY <1>1, <2>2 DEF Replayed
  <2> QED
    BY <1>2, <2>1, <2>3
<1> HIDE DEF k, from
<1>7. \A c \in Clients :
          Stream(c)' = IF c = from THEN Append(Stream(c), messages[k])
                       ELSE Stream(c)
  BY <1>1, <1>3, MTypesHas, SendStreams
<1>8. \A c \in Clients : Sharing(c)' <=> Sharing(c)
  BY <1>1 DEF Sharing
<1>9. Silent'
  BY <1>1, <1>4, <1>5, <1>7, <1>8 DEF Silent, history
<1>10. Replay'
  <2> SUFFICES ASSUME NEW c \in Clients, Sharing(c)'
               PROVE  /\ joined'[c] = NotYet
                      /\ asked'[c] \in 0..Len(messages')
                      /\ Replayed' <= Len(messages')
                      /\ Stream(c)' = Pieces(messages', 0, 1, Replayed')
    BY <1>1 DEF Replay
  <2>1. Sharing(c) /\ c = from
    BY <1>8 DEF Sharing, from
  <2>2. /\ joined[c] = NotYet /\ asked[c] \in 0..Len(messages)
        /\ Stream(c) = Pieces(messages, 0, 1, Replayed)
    BY <1>1, <1>4, <2>1 DEF Replay
  <2>3. Append(Stream(c), messages[k]) = Pieces(messages, 0, 1, k)
    <3>1. PICK s, n : s = messages /\ n = Replayed
      OBVIOUS
    <3>2. /\ s \in Seq(Lines) /\ 0 \in 0..Len(s) /\ n \in Nat
          /\ n + 1 <= Len(s) /\ 1 \in 1..(n + 1)
      BY <1>2, <1>6, <3>1
    <3>3. Append(Pieces(s, 0, 1, n), s[n + 1]) = Pieces(s, 0, 1, n + 1)
      BY <3>2, PiecesAppend
    <3> QED
      BY <1>6, <2>2, <3>1, <3>3
  <2>4. Stream(c)' = Pieces(messages, 0, 1, k)
    BY <1>7, <2>1, <2>3
  <2> QED
    BY <1>1, <1>2, <1>6, <2>2, <2>4 DEF history
<1>11. Live'
  <2> SUFFICES ASSUME NEW c \in Clients, NEW i \in DOMAIN members,
                      members[i].id = c, joined[c] # NotYet
               PROVE  /\ asked[c] \in Nat /\ joined[c] \in Nat
                      /\ joined[c] <= Len(Taken)
                      /\ \E a \in asked[c]..joined[c],
                            b \in 1..(joined[c] + 1) :
                            /\ a < b /\ b <= Sent(i) + 1
                            /\ Stream(c)' = Pieces(Taken, a, b, Sent(i))
    <3>1. /\ Taken' = Taken /\ \A i \in DOMAIN members : Sent(i)' = Sent(i)
      BY <1>1 DEF Taken, Sent, msgVars
    <3> QED
      BY <1>1, <3>1 DEF Live, history
  <2>1. Stream(c)' = Stream(c)
    BY <1>5, <1>7
  <2> QED
    BY <1>4, <2>1 DEF Live
<1>12. Casts'
  BY <1>1, <1>4 DEF Casts, msgVars
<1> QED
  BY <1>9, <1>10, <1>11, <1>12 DEF GapInv

(* All that is kept was sent.                                              *)
LEMMA GapShareEnd == ASSUME TypeInv, GapInv, MemShareEnd PROVE GapInv'
<1>1. /\ members' = members /\ messages' = messages
      /\ memPc = "share" /\ memPc' = "add" /\ memI' = memI
      /\ memI > Len(members) + Len(messages) /\ memMsg' = memMsg
      /\ UNCHANGED <<msgVars, history>>
  BY DEF MemShareEnd, server
<1>2. SameStreams
  BY QuietStreams DEF MemShareEnd, client
<1>3. Casts /\ Silent /\ Replay /\ Live
  BY <1>1 DEF GapInv, Serving
<1>4. /\ Taken' = Taken /\ \A i \in DOMAIN members : Sent(i)' = Sent(i)
      /\ SameTable /\ Casts' /\ \A c \in Clients : Sharing(c)' <=> Sharing(c)
  BY <1>1, <1>3 DEF Taken, Sent, SameTable, Casts, Sharing, msgVars
<1>5. Replay'
  <2> SUFFICES ASSUME NEW c \in Clients, Sharing(c)'
               PROVE  /\ joined'[c] = NotYet
                      /\ asked'[c] \in 0..Len(messages')
                      /\ \E a \in asked'[c]..Len(messages') :
                            Stream(c)' = Pieces(messages', 0, 1, a)
    BY <1>1 DEF Replay
  <2>1. Sharing(c) /\ Stream(c)' = Stream(c)
    BY <1>2, <1>4 DEF SameStreams
  <2>2. /\ joined[c] = NotYet /\ asked[c] \in 0..Len(messages)
        /\ Replayed <= Len(messages)
        /\ Stream(c) = Pieces(messages, 0, 1, Replayed)
    BY <1>1, <1>3, <2>1 DEF Replay
  <2>3. Replayed = Len(messages) /\ Len(messages) \in asked[c]..Len(messages)
    <3>1. Len(members) \in Nat /\ Len(messages) \in Nat /\ memI \in Nat
      BY LenProperties DEF TypeInv, TypeOK
    <3>2. memI > Len(members)
      BY <1>1, <3>1
    <3>3. Replayed = memI - Len(members) - 1
      BY <3>2 DEF Replayed
    <3> QED
      BY <1>1, <2>2, <3>1, <3>3
  <2> QED
    BY <1>1, <2>1, <2>2, <2>3 DEF history
<1> QED
  BY <1>1, <1>2, <1>3, <1>4, <1>5, SilentKeeps, LiveKeeps
  DEF GapInv, history

(* The newcomer is registered.  Its stretch of live lines is empty and     *)
(* begins behind all that was sent so far to the end of the table.         *)
LEMMA GapAdd == ASSUME TypeInv, GapInv, MemAdd PROVE GapInv'
<1> DEFINE from == memMsg.from
           n == Len(members)
<1>1. /\ members' = Append(members, [id |-> from, online |-> TRUE])
      /\ messages' = messages /\ memPc = "add" /\ memPc' = "cast"
      /\ memMsg' = memMsg /\ memMsg \in Message /\ memMsg.kind = "join"
      /\ from \in Clients /\ asked' = asked
      /\ joined' = [joined EXCEPT ![from] = Len(Taken)]
      /\ UNCHANGED msgVars
  BY DEF MemAdd, TypeInv, TypeOK, Held, Message
<1>2. /\ members \in Seq(Entry(Clients)) /\ n \in Nat
      /\ DOMAIN members = 1..n
      /\ [id |-> from, online |-> TRUE] \in Entry(Clients)
      /\ joined \in [Clients -> Nat \cup {NotYet}]
      /\ asked \in [Clients -> Nat \cup {NotYet}]
  BY <1>1, LenProperties DEF TypeInv, TypeOK, Entry
<1>3. /\ DOMAIN members' = 1..(n + 1) /\ Len(members') = n + 1
      /\ members'[n + 1].id = from
      /\ \A i \in 1..n : members'[i] = members[i]
  BY <1>1, <1>2, AppendProperties, LenProperties
<1>4. SameStreams
  BY QuietStreams DEF MemAdd, client
<1>5. Casts /\ Silent /\ Replay /\ Live
  BY <1>1 DEF GapInv, Serving
<1>6. Sharing(from) /\ \A c \in Clients : Sharing(c) => c = from
  BY <1>1 DEF Sharing
<1>7. joined[from] = NotYet /\ ~Holds(members, from)
  BY <1>1, <1>5, <1>6 DEF Replay, Silent
<1>8. /\ Taken \in Seq(Lines) /\ Len(Taken) \in Nat /\ Len(messages) \in Nat
      /\ Len(messages) <= Len(Taken)
      /\ \A i \in 1..Len(messages) : Taken[i] = messages[i]
  BY TakenIs
<1>9. Taken' = Taken /\ \A i : Sent(i)' = Sent(i)
  BY <1>1 DEF Taken, Sent, msgVars
<1> HIDE DEF n, from
<1>10. /\ joined'[from] = Len(Taken) /\ joined'[from] # NotYet
       /\ \A c \in Clients : c # from => joined'[c] = joined[c]
  BY <1>1, <1>2, <1>8 DEF NotYet
<1>11. Silent'
  <2> SUFFICES ASSUME NEW c \in Clients, joined'[c] = NotYet
               PROVE  ~Holds(members', c) /\ Stream(c)' = <<>>
    BY DEF Silent
  <2>1. c # from /\ joined[c] = NotYet /\ ~Sharing(c)
    BY <1>6, <1>10
  <2>2. ~Holds(members, c) /\ Stream(c) = <<>>
    BY <1>5, <2>1 DEF Silent
  <2>3. \A i \in 1..(n + 1) : i \in 1..n \/ i = n + 1
    BY <1>2
  <2>4. ~Holds(members', c)
    BY <1>2, <1>3, <2>1, <2>2, <2>3 DEF Holds
  <2> QED
    BY <1>4, <2>2, <2>4 DEF SameStreams
<1>12. Replay'
  BY <1>1 DEF Replay, Sharing
<1>13. Live'
  <2> SUFFICES ASSUME NEW c \in Clients, NEW i \in DOMAIN members',
                      members'[i].id = c, joined'[c] # NotYet
               PROVE  /\ asked[c] \in Nat /\ joined'[c] \in Nat
                      /\ joined'[c] <= Len(Taken)
                      /\ \E a \in asked[c]..joined'[c],
                            b \in 1..(joined'[c] + 1) :
                            /\ a < b /\ b <= Sent(i) + 1
                            /\ Stream(c) = Pieces(Taken, a, b, Sent(i))
    <3>1. \A c \in Clients : Stream(c)' = Stream(c)
      BY <1>4 DEF SameStreams
    <3> HIDE DEF Sent
    <3> QED
      BY <1>1, <1>9, <3>1 DEF Live
  <2>1. CASE i = n + 1
    <3>1. c = from
      BY <1>3, <2>1
    <3>2. /\ asked[c] \in 0..Len(messages)
          /\ \E a \in asked[c]..Len(messages) :
                 Stream(c) = Pieces(messages, 0, 1, a)
      BY <1>1, <1>5, <1>6, <3>1 DEF Replay
    <3>3. PICK a \in asked[c]..Len(messages) :
              Stream(c) = Pieces(messages, 0, 1, a)
      BY <3>2
    <3>4. a \in 0..Len(messages) /\ a \in asked[c]..joined'[c]
      BY <1>8, <1>10, <3>1, <3>2
    <3>5. Sent(i) \in Nat /\ Sent(i) \in Len(messages)..Len(Taken)
      <4>1. CASE msgPc = "add"
        <5>1. Sent(i) = Len(messages) + 1
          BY <4>1 DEF Sent
        <5> QED
          BY <1>8, <4>1, <5>1, TakenIs
      <4>2. CASE msgPc # "add"
        <5>1. ~(msgPc = "cast" /\ i < msgI)
          BY <1>2, <1>5, <2>1 DEF Casts
        <5>2. Sent(i) = Len(messages) + 0
          BY <4>2, <5>1 DEF Sent
        <5> QED
          BY <1>8, <5>2
      <4> QED
        BY <4>1, <4>2
    <3>6. PICK k \in Nat : k = Sent(i)
      BY <3>5
    <3>7. Pieces(messages, 0, 1, a) = Pieces(Taken, a, k + 1, k)
      <4>1. PICK v, w, l : v = messages /\ w = Taken /\ l = Len(messages)
        OBVIOUS
      <4>2. /\ l \in Nat /\ 0 \in 0..l /\ 1 \in 1..(l + 1) /\ a \in 0..l
            /\ Agree(v, w, l)
        BY <1>8, <3>4, <4>1 DEF Agree
      <4>3. Pieces(w, 0, 1, a) = Pieces(v, 0, 1, a)
        BY <4>2, PiecesSame
      <4>4. Pieces(w, 0, 1, a) = Pieces(w, a, k + 1, k)
        BY <4>2, PiecesBegin
      <4> QED
        BY <4>1, <4>3, <4>4
    <3>8. /\ k + 1 \in 1..(joined'[c] + 1) /\ a < k + 1
          /\ k + 1 <= Sent(i) + 1
      BY <1>8, <1>10, <3>1, <3>4, <3>5, <3>6
    <3>9. Stream(c) = Pieces(Taken, a, k + 1, Sent(i))
      BY <3>3, <3>6, <3>7
    <3>10. asked[c] \in Nat /\ joined'[c] \in Nat /\ joined'[c] <= Len(Taken)
      BY <1>8, <1>10, <3>1, <3>2
    <3> QED
      BY <3>4, <3>8, <3>9, <3>10
  <2>2. CASE i # n + 1
    <3>1. i \in DOMAIN members /\ members[i].id = c
      BY <1>2, <1>3, <2>2
    <3>2. c # from
      BY <1>7, <3>1 DEF Holds
    <3>3. joined'[c] = joined[c] /\ joined[c] # NotYet
      BY <1>10, <3>2
    <3> QED
      BY <1>5, <3>1, <3>3 DEF Live
  <2> QED
    BY <2>1, <2>2
<1>14. Casts'
  <2>1. msgPc = "cast" => msgI \in 1..(n + 1)
    BY <1>5 DEF Casts, n
  <2>2. \A x \in 1..(n + 1) : x \in 1..((n + 1) + 1)
    BY <1>2
  <2> QED
    BY <1>1, <1>3, <2>1, <2>2 DEF Casts, msgVars
<1> QED
  BY <1>11, <1>12, <1>13, <1>14 DEF GapInv

(* A join or a leave is no line.                                           *)
LEMMA GapCast == ASSUME TypeInv, GapInv, MemCast PROVE GapInv'
<1>1. /\ members' = members /\ lines' = lines
      /\ memPc = "cast" /\ memPc' = "cast" /\ memI \in DOMAIN members
      /\ memMsg' = memMsg /\ memMsg \in Message
      /\ UNCHANGED <<messages, msgVars, history>>
      /\ Send(members[memI].id, memMsg)
  BY DEF MemCast, TypeInv, Held, server, client
<1>2. Casts /\ Serving
  BY <1>1 DEF GapInv, Serving
<1>3. ~IsLine(memMsg)
  BY <1>1, <1>2 DEF Casts, IsLine
<1>4. members[memI].id \in MTypes
  BY <1>1, MemberId, MTypesHas DEF TypeInv, TypeOK
<1>5. SameStreams
  BY <1>1, <1>3, <1>4, SendStreams DEF SameStreams
<1>6. SameTable
  BY <1>1 DEF SameTable
<1> QED
  BY <1>1, <1>2, <1>5, <1>6, GapMembersQuiet DEF Casts

(* The broadcast is over, or the server ends.                              *)
LEMMA GapAfterCast ==
    ASSUME TypeInv, GapInv, MemCheck \/ MemReset \/ MemFlag PROVE GapInv'
<1>1. CASE MemCheck
  <2>1. SameStreams
    BY <1>1, QuietStreams DEF MemCheck, client
  <2>2. SameTable
    BY <1>1 DEF MemCheck, SameTable
  <2> QED
    BY <1>1, <2>1, <2>2, GapMembersQuiet DEF MemCheck, Serving
<1>2. CASE MemReset \/ MemFlag
  BY <1>2 DEF MemReset, MemFlag, GapInv, Serving
<1> QED
  BY <1>1, <1>2

(* A line is taken: it is the last of those taken, and nobody has it yet.  *)
LEMMA GapTakes == ASSUME TypeInv, TypeInv', GapInv, MsgReceive PROVE GapInv'
<1> SUFFICES ASSUME Serving PROVE GapInv'
  BY DEF MsgReceive, GapInv, Serving, memVars
<1>1. /\ members' = members /\ messages' = messages
      /\ UNCHANGED <<memVars, history>>
      /\ msgPc = "recv" /\ msgPc' \in {"cast", "lock"} /\ msgI' = 1
  BY DEF MsgReceive, server
<1>2. lines' = lines /\ \A c \in Clients : queue'[c] = queue[c]
  BY ClientsAssumption, MTypesHas
  DEF MsgReceive, Receive, client, TypeInv, TypeOK
<1>3. SameStreams
  BY <1>2, ElsewhereStreams
<1>4. Casts /\ Silent /\ Replay /\ Live
  BY DEF GapInv
<1>5. /\ SameTable /\ Replayed' = Replayed
      /\ \A c \in Clients : Sharing(c)' <=> Sharing(c)
  BY <1>1 DEF SameTable, Sharing, Replayed, memVars
<1>6. Silent' /\ Replay'
  BY <1>1, <1>3, <1>4, <1>5, SilentKeeps, ReplayKeeps DEF history, memVars
<1>7. /\ Len(members) \in Nat /\ DOMAIN members = 1..Len(members)
  BY LenProperties DEF TypeInv, TypeOK
<1>8. Casts'
  <2>1. 1 \in 1..(Len(members) + 1)
    BY <1>7
  <2> QED
    BY <1>1, <1>4, <2>1 DEF Casts, memVars
<1>9. Live'
  <2>1. /\ Len(messages) \in Nat /\ Len(Taken) = Len(messages)
        /\ \A i \in 1..Len(messages) : Taken[i] = messages[i]
    BY <1>1, TakenIs
  <2>2. /\ Len(messages) <= Len(Taken') /\ Len(Taken') \in Nat
        /\ \A i \in 1..Len(messages) : Taken'[i] = messages[i]
    <3>1. PICK kept, pc, m, t :
              kept = messages' /\ pc = msgPc' /\ m = msgMsg' /\ t = Taken'
      OBVIOUS
    <3>2. t = kept \o IF pc \in {"cast", "add"} THEN <<m>> ELSE <<>>
      BY <3>1 DEF Taken
    <3>3. /\ kept \in Seq(Lines)
          /\ pc \in {"cast", "add"} => m \in Lines
      BY <3>1 DEF TypeInv, TypeOK, Held
    <3>4. /\ Len(kept) \in Nat
          /\ Len(t) = IF pc \in {"cast", "add"} THEN Len(kept) + 1
                      ELSE Len(kept)
          /\ \A i \in 1..Len(kept) : t[i] = kept[i]
      BY <3>2, <3>3, TakenOf
    <3>5. Len(kept) <= Len(t) /\ Len(t) \in Nat
      BY <3>4
    <3> QED
      BY <1>1, <3>1, <3>4, <3>5
  <2>3. ASSUME NEW i \in DOMAIN members
        PROVE  Sent(i) = Len(messages) /\ Sent(i)' = Len(messages)
    <3>1. ~(i < 1)
      BY <1>7
    <3>2. Sent(i) = Len(messages) + 0
      BY <1>1 DEF Sent
    <3>3. Sent(i)' = Len(messages) + 0
      BY <1>1, <3>1 DEF Sent
    <3> QED
      BY <2>1, <3>2, <3>3
  <2> SUFFICES ASSUME NEW c \in Clients, NEW i \in DOMAIN members,
                      members[i].id = c, joined[c] # NotYet
               PROVE  /\ asked[c] \in Nat /\ joined[c] \in Nat
                      /\ joined[c] <= Len(Taken')
                      /\ \E a \in asked[c]..joined[c],
                            b \in 1..(joined[c] + 1) :
                            /\ a < b /\ b <= Sent(i)' + 1
                            /\ Stream(c)' = Pieces(Taken', a, b, Sent(i)')
    <3> HIDE DEF Sent
    <3> QED
      BY <1>1 DEF Live, history
  <2>4. /\ asked[c] \in Nat /\ joined[c] \in Nat /\ joined[c] <= Len(Taken)
        /\ \E a \in asked[c]..joined[c], b \in 1..(joined[c] + 1) :
              /\ a < b /\ b <= Sent(i) + 1
              /\ Stream(c) = Pieces(Taken, a, b, Sent(i))
    BY <1>4 DEF Live
  <2>5. PICK a \in asked[c]..joined[c], b \in 1..(joined[c] + 1) :
            /\ a < b /\ b <= Sent(i) + 1
            /\ Stream(c) = Pieces(Taken, a, b, Sent(i))
    BY <2>4
  <2>6. Pieces(Taken', a, b, Sent(i)') = Pieces(Taken, a, b, Sent(i))
    <3>1. PICK t, u, k : t = Taken /\ u = Taken' /\ k = Len(messages)
      OBVIOUS
    <3>2. /\ k \in Nat /\ a \in 0..k /\ b \in 1..(k + 1) /\ k \in 0..k
          /\ Agree(t, u, k)
      BY <2>1, <2>2, <2>3, <2>4, <2>5, <3>1 DEF Agree
    <3>3. Pieces(u, a, b, k) = Pieces(t, a, b, k)
      BY <3>2, PiecesSame
    <3> QED
      BY <2>3, <3>1, <3>3
  <2>7. Stream(c)' = Pieces(Taken', a, b, Sent(i)')
    BY <1>3, <2>5, <2>6 DEF SameStreams
  <2>8. joined[c] <= Len(Taken') /\ b <= Sent(i)' + 1
    BY <2>1, <2>2, <2>3, <2>4, <2>5
  <2> QED
    BY <2>4, <2>5, <2>7, <2>8
<1> QED
  BY <1>4, <1>6, <1>8, <1>9 DEF GapInv

(* The line goes to the next of the table: its stretch grows by one.       *)
LEMMA GapSends ==
    ASSUME TypeInv, MembershipInv, GapInv, MsgCast PROVE GapInv'
<1> SUFFICES ASSUME Serving PROVE GapInv'
  BY DEF MsgCast, GapInv, Serving, memVars
<1> DEFINE at == members[msgI].id
           n == Len(messages)
<1>1. /\ members' = members /\ messages' = messages /\ lines' = lines
      /\ UNCHANGED <<memVars, history>>
      /\ msgPc = "cast" /\ msgPc' = "cast" /\ msgMsg' = msgMsg
      /\ msgI' = msgI + 1 /\ msgI \in DOMAIN members
      /\ Send(at, msgMsg)
  BY DEF MsgCast, server, client
<1>2. Casts /\ Silent /\ Replay /\ Live /\ TableOK
  BY DEF GapInv, MembershipInv
<1>3. /\ at \in Clients /\ msgMsg \in Lines /\ msgI \in Nat
      /\ DOMAIN members = 1..Len(members) /\ Len(members) \in Nat
  BY <1>1, MemberId, LenProperties DEF TypeInv, TypeOK, Held
<1>4. msgMsg \in Message /\ IsLine(msgMsg)
  BY <1>3 DEF Lines, IsLine
<1>5. joined[at] # NotYet /\ Holds(members, at)
  BY <1>1, <1>2, <1>3 DEF Silent, Holds
<1>6. \A i \in DOMAIN members : members[i].id = at => i = msgI
  BY <1>1, <1>2 DEF TableOK
<1>7. /\ Taken \in Seq(Lines) /\ n \in Nat /\ Len(Taken) = n + 1
      /\ Taken[n + 1] = msgMsg
  BY <1>1, TakenIs
<1>8. ASSUME NEW i \in DOMAIN members
      PROVE  Sent(i)' = IF i = msgI THEN n + 1 ELSE Sent(i)
  <2>1. i \in Nat
    BY <1>3
  <2>2. (i < msgI + 1) <=> (i < msgI \/ i = msgI)
    BY <1>3, <2>1
  <2>3. Sent(i)' = n + IF i < msgI \/ i = msgI THEN 1 ELSE 0
    BY <1>1, <2>2 DEF Sent
  <2>4. Sent(i) = n + IF i < msgI THEN 1 ELSE 0
    BY <1>1 DEF Sent
  <2>5. CASE i = msgI
    BY <2>3, <2>5
  <2>6. CASE i # msgI
    BY <2>3, <2>4, <2>6
  <2> QED
    BY <2>5, <2>6
<1>9. Sent(msgI) = n
  <2>1. ~(msgI < msgI)
    BY <1>3
  <2>2. Sent(msgI) = n + 0
    BY <1>1, <2>1 DEF Sent
  <2> QED
    BY <1>7, <2>2
<1> HIDE DEF n
<1>10. \A c \in Clients :
           Stream(c)' = IF c = at THEN Append(Stream(c), msgMsg)
                        ELSE Stream(c)
  BY <1>1, <1>3, <1>4, MTypesHas, SendStreams
<1> HIDE DEF at
<1>11. /\ Taken' = Taken /\ Replayed' = Replayed
       /\ \A c \in Clients : Sharing(c)' <=> Sharing(c)
  BY <1>1 DEF Taken, Sharing, Replayed, memVars
<1>12. Silent'
  BY <1>1, <1>2, <1>5, <1>10, <1>11 DEF Silent, history
<1>13. Replay'
  <2>1. ~Sharing(at)
    BY <1>2, <1>3, <1>5 DEF Replay
  <2> SUFFICES ASSUME NEW c \in Clients, Sharing(c)
               PROVE  /\ joined[c] = NotYet
                      /\ asked[c] \in 0..Len(messages)
                      /\ memPc = "share" =>
                            /\ Replayed <= Len(messages)
                            /\ Stream(c)' = Pieces(messages, 0, 1, Replayed)
                      /\ memPc = "add" =>
                            \E a \in asked[c]..Len(messages) :
                                Stream(c)' = Pieces(messages, 0, 1, a)
    BY <1>1, <1>11 DEF Replay, history, memVars
  <2>2. Stream(c)' = Stream(c)
    BY <1>10, <2>1
  <2> QED
    BY <1>2, <2>2 DEF Replay
<1>14. Casts'
  <2>1. msgI + 1 \in 1..(Len(members) + 1)
    BY <1>1, <1>3
  <2> QED
    BY <1>1, <1>2, <2>1 DEF Casts, memVars
<1>15. Live'
  <2> SUFFICES ASSUME NEW c \in Clients, NEW i \in DOMAIN members,
                      members[i].id = c, joined[c] # NotYet
               PROVE  /\ asked[c] \in Nat /\ joined[c] \in Nat
                      /\ joined[c] <= Len(Taken)
                      /\ \E a \in asked[c]..joined[c],
                            b \in 1..(joined[c] + 1) :
                            /\ a < b /\ b <= Sent(i)' + 1
                            /\ Stream(c)' = Pieces(Taken, a, b, Sent(i)')
    BY <1>1, <1>11 DEF Live, history
  <2>1. /\ asked[c] \in Nat /\ joined[c] \in Nat /\ joined[c] <= Len(Taken)
        /\ \E a \in asked[c]..joined[c], b \in 1..(joined[c] + 1) :
              /\ a < b /\ b <= Sent(i) + 1
              /\ Stream(c) = Pieces(Taken, a, b, Sent(i))
    BY <1>2 DEF Live
  <2>2. CASE i = msgI
    <3>1. PICK a \in asked[c]..joined[c], b \in 1..(joined[c] + 1) :
              /\ a < b /\ b <= n + 1
              /\ Stream(c) = Pieces(Taken, a, b, n)
      BY <1>9, <2>1, <2>2
    <3>2. Sent(i)' = n + 1
      BY <1>8, <2>2
    <3>3. Stream(c)' = Append(Stream(c), msgMsg)
      BY <1>10, <2>2 DEF at
    <3>4. Append(Pieces(Taken, a, b, n), Taken[n + 1]) =
              Pieces(Taken, a, b, n + 1)
      <4>1. PICK t : t = Taken
        OBVIOUS
      <4>2. /\ t \in Seq(Lines) /\ a \in 0..Len(t) /\ n \in Nat
            /\ n + 1 <= Len(t) /\ b \in 1..(n + 1)
        BY <1>7, <2>1, <3>1, <4>1
      <4>3. Append(Pieces(t, a, b, n), t[n + 1]) = Pieces(t, a, b, n + 1)
        BY <4>2, PiecesAppend
      <4> QED
        BY <4>1, <4>3
    <3>5. Stream(c)' = Pieces(Taken, a, b, Sent(i)')
      BY <1>7, <3>1, <3>2, <3>3, <3>4
    <3>6. b <= Sent(i)' + 1
      BY <1>7, <3>1, <3>2
    <3> QED
      BY <2>1, <3>1, <3>5, <3>6
  <2>3. CASE i # msgI
    <3>1. c # at
      BY <1>6, <2>3
    <3>2. Stream(c)' = Stream(c) /\ Sent(i)' = Sent(i)
      BY <1>8, <1>10, <2>3, <3>1
    <3> HIDE DEF Sent
    <3> QED
      BY <2>1, <3>2
  <2> QED
    BY <2>2, <2>3
<1> QED
  BY <1>12, <1>13, <1>14, <1>15 DEF GapInv

(* The line taken is kept, or there is none: the lines taken stay the same *)
(* and so does what was sent of them.                                      *)
LEMMA GapKeeps ==
    ASSUME TypeInv, GapInv, MsgTest \/ MsgQuit \/ MsgCastEnd \/ MsgAdd
    PROVE  GapInv'
<1> SUFFICES ASSUME Serving PROVE GapInv'
  BY DEF MsgTest, MsgQuit, MsgCastEnd, MsgAdd, GapInv, Serving, memVars,
     server
<1>1. /\ members' = members /\ UNCHANGED <<memVars, history>>
      /\ msgPc' # "cast"
  BY DEF MsgTest, MsgQuit, MsgCastEnd, MsgAdd, server
<1>2. SameStreams
  BY QuietStreams DEF MsgTest, MsgQuit, MsgCastEnd, MsgAdd, client
<1>3. Casts /\ Silent /\ Replay /\ Live
  BY DEF GapInv
<1>4. /\ SameTable /\ Replayed' = Replayed
      /\ \A c \in Clients : Sharing(c)' <=> Sharing(c)
  BY <1>1 DEF SameTable, Sharing, Replayed, memVars
<1>5. Casts' /\ Silent'
  BY <1>1, <1>2, <1>3, <1>4, SilentKeeps DEF Casts, memVars, history
<1>6. /\ Len(members) \in Nat /\ DOMAIN members = 1..Len(members)
      /\ messages \in Seq(Lines) /\ Len(messages) \in Nat
      /\ (msgPc \in {"cast", "add"} => msgMsg \in Lines)
  BY LenProperties DEF TypeInv, TypeOK, Held
<1>7. CASE MsgTest \/ MsgQuit \/ MsgCastEnd
  <2>1. messages' = messages /\ msgMsg' = msgMsg
    BY <1>7 DEF MsgTest, MsgQuit, MsgCastEnd, server
  <2>2. Taken' = Taken
    BY <1>7, <2>1 DEF Taken, MsgTest, MsgQuit, MsgCastEnd
  <2>3. ASSUME NEW i \in DOMAIN members PROVE Sent(i)' = Sent(i)
    <3>1. CASE MsgTest \/ MsgQuit
      BY <2>1, <3>1 DEF Sent, MsgTest, MsgQuit
    <3>2. CASE MsgCastEnd
      <4>1. i < msgI
        BY <1>3, <1>6, <3>2 DEF MsgCastEnd, Casts
      <4> QED
        BY <2>1, <3>2, <4>1 DEF Sent, MsgCastEnd
    <3> QED
      BY <1>7, <3>1, <3>2
  <2>4. Replay'
    BY <1>1, <1>2, <1>3, <1>4, <2>1, ReplayKeeps DEF memVars, history
  <2>5. Live'
    <3> HIDE DEF Sent
    <3> QED
      BY <1>1, <1>2, <1>3, <1>4, <2>2, <2>3, LiveKeeps DEF history
  <2> QED
    BY <1>5, <2>4, <2>5 DEF GapInv
<1>8. CASE MsgAdd
  <2>1. /\ messages' = Append(messages, msgMsg) /\ msgMsg \in Lines
        /\ msgPc = "add" /\ msgPc' = "test"
    BY <1>6, <1>8 DEF MsgAdd
  <2>2. /\ messages' \in Seq(Lines) /\ Len(messages') = Len(messages) + 1
        /\ \A j \in 1..Len(messages) : messages'[j] = messages[j]
    BY <1>6, <2>1, AppendProperties
  <2>3. Taken' = Taken
    <3>1. Taken = messages \o <<msgMsg>>
      BY <2>1 DEF Taken
    <3>2. Taken' = messages' \o <<>>
      BY <2>1 DEF Taken
    <3>3. messages' \o <<>> = messages'
      BY <2>2, ConcatEmptySeq
    <3>4. messages' = messages \o <<msgMsg>>
      BY <1>6, <2>1, AppendIsConcat
    <3> QED
      BY <3>1, <3>2, <3>3, <3>4
  <2>4. ASSUME NEW i \in DOMAIN members PROVE Sent(i)' = Sent(i)
    <3>1. Sent(i) = Len(messages) + 1
      BY <2>1 DEF Sent
    <3>2. Sent(i)' = Len(messages') + 0
      BY <2>1 DEF Sent
    <3> QED
      BY <1>6, <2>2, <3>1, <3>2
  <2>5. Live'
    <3> HIDE DEF Sent
    <3> QED
      BY <1>1, <1>2, <1>3, <1>4, <2>3, <2>4, LiveKeeps DEF history
  <2>6. Replay'
    <3> SUFFICES ASSUME NEW c \in Clients, Sharing(c)
                 PROVE  /\ joined[c] = NotYet
                        /\ asked[c] \in 0..Len(messages')
                        /\ memPc = "share" =>
                              /\ Replayed <= Len(messages')
                              /\ Stream(c) = Pieces(messages', 0, 1, Replayed)
                        /\ memPc = "add" =>
                              \E a \in asked[c]..Len(messages') :
                                  Stream(c) = Pieces(messages', 0, 1, a)
      <4>1. \A c \in Clients : Stream(c)' = Stream(c)
        BY <1>2 DEF SameStreams
      <4> QED
        BY <1>1, <1>4, <4>1 DEF Replay, history, memVars
    <3>1. /\ joined[c] = NotYet /\ asked[c] \in 0..Len(messages)
          /\ memPc = "share" =>
                /\ Replayed <= Len(messages)
                /\ Stream(c) = Pieces(messages, 0, 1, Replayed)
          /\ memPc = "add" => \E a \in asked[c]..Len(messages) :
                                 Stream(c) = Pieces(messages, 0, 1, a)
      BY <1>3 DEF Replay
    <3>2. Replayed \in Nat
      <4>1. memI \in Nat
        BY DEF TypeInv, TypeOK
      <4> QED
        BY <1>6, <4>1 DEF Replayed
    <3>3. ASSUME NEW x \in 0..Len(messages)
          PROVE  /\ Pieces(messages', 0, 1, x) = Pieces(messages, 0, 1, x)
                 /\ x <= Len(messages')
      <4>1. PICK v, w, l :
                v = messages /\ w = messages' /\ l = Len(messages)
        OBVIOUS
      <4>2. /\ l \in Nat /\ 0 \in 0..l /\ 1 \in 1..(l + 1) /\ x \in 0..l
            /\ Agree(v, w, l)
        BY <1>6, <2>2, <4>1 DEF Agree
      <4>3. Pieces(w, 0, 1, x) = Pieces(v, 0, 1, x)
        BY <4>2, PiecesSame
      <4> QED
        BY <1>6, <2>2, <4>1, <4>3
    <3>4. memPc = "share" =>
              /\ Replayed <= Len(messages')
              /\ Stream(c) = Pieces(messages', 0, 1, Replayed)
      <4>1. memPc = "share" => Replayed \in 0..Len(messages)
        BY <1>6, <3>1, <3>2
      <4> QED
        BY <3>1, <3>3, <4>1
    <3>5. ASSUME memPc = "add"
          PROVE  \E a \in asked[c]..Len(messages') :
                     Stream(c) = Pieces(messages', 0, 1, a)
      <4>1. PICK a \in asked[c]..Len(messages) :
                Stream(c) = Pieces(messages, 0, 1, a)
        BY <3>1, <3>5
      <4>2. a \in 0..Len(messages) /\ a \in asked[c]..Len(messages')
        BY <1>6, <2>2, <3>1
      <4>3. Pieces(messages', 0, 1, a) = Pieces(messages, 0, 1, a)
        BY <3>3, <4>2
      <4> QED
        BY <4>1, <4>2, <4>3
    <3>6. asked[c] \in 0..Len(messages')
      BY <1>6, <2>2, <3>1
    <3> QED
      BY <3>1, <3>4, <3>5, <3>6
  <2> QED
    BY <1>5, <2>5, <2>6 DEF GapInv
<1> QED
  BY <1>7, <1>8

(* In every state the pieces fit.                                          *)
LEMMA GapInvariant == Spec => []GapInv
<1>1. Init => GapInv
  <2> SUFFICES ASSUME Init PROVE GapInv
    OBVIOUS
  <2>1. \A c \in Clients : Stream(c) = <<>>
    <3> SUFFICES ASSUME NEW c \in Clients PROVE Stream(c) = <<>>
      OBVIOUS
    <3>1. queue[c] = <<>> /\ lines[c] = <<>>
      BY MTypesHas DEF Init
    <3> QED
      BY <3>1, LinesInEmpty DEF Stream
  <2>2. /\ members = <<>> /\ memPc = "recv" /\ msgPc = "test"
        /\ joined = [c \in Clients |-> NotYet]
    BY DEF Init
  <2>3. Casts /\ Silent /\ Replay /\ Live
    BY <2>1, <2>2 DEF Casts, Silent, Replay, Live, Sharing, Holds
  <2> QED
    BY <2>3 DEF GapInv
<1>2. TypeInv /\ TypeInv' /\ MembershipInv /\ GapInv /\ [Next]_vars => GapInv'
  <2> SUFFICES ASSUME TypeInv, TypeInv', MembershipInv, GapInv, [Next]_vars
               PROVE  GapInv'
    OBVIOUS
  <2>1. CASE MembersHandler
    BY <2>1, GapReceive, GapLeave, GapJoin, GapShareMember, GapShareLine,
       GapShareEnd, GapAdd, GapCast, GapAfterCast DEF MembersHandler
  <2>2. CASE MessageHandler
    BY <2>2, GapTakes, GapSends, GapKeeps DEF MessageHandler
  <2>3. CASE ServerEnd
    BY <2>3 DEF ServerEnd, GapInv, Serving, memVars
  <2>4. ASSUME NEW c \in Clients, UserActs(c) \/ MainRuns(c) \/ Receiver(c)
        PROVE  GapInv'
    <3>1. UNCHANGED <<members, messages, memVars, msgVars, history>>
      BY <2>4 DEF UserActs, MainRuns, Receiver, Boot, TypeLine, SendLine,
         TypeExit, SendExit, JoinThreads, JoinFaults, Killed, SendLeave,
         SendQuit, RcvTest, RcvNothing, RcvJoin, RcvLeave, RcvLine, RcvExit,
         server
    <3> QED
      BY <2>4, <3>1, ClientStreams, GapQuiet
  <2>5. CASE UNCHANGED vars
    BY <2>5, QuietStreams, GapQuiet DEF vars, server, client
  <2> QED
    BY <2>1, <2>2, <2>3, <2>4, <2>5 DEF Next
<1>3. Spec => []TypeInv /\ []MembershipInv
  BY TypeInvariant, MembershipCorrect, PTL
<1> QED
  BY <1>1, <1>2, <1>3, PTL DEF Spec

(* Whatever the two threads do between each other's statements, a client   *)
(* sees a beginning of the server's lines and then an unbroken stretch of  *)
(* later ones (server.c 78-79, 129-135).                                   *)
THEOREM NoGapAlways == Spec => []NoGapAfterJoin
<1>1. TypeInv /\ MembershipInv /\ GapInv => NoGapAfterJoin
  <2> SUFFICES ASSUME TypeInv, MembershipInv, GapInv, NEW c \in Clients,
                      joined[c] # NotYet, Serving
               PROVE  \E a \in asked[c]..joined[c], b \in 1..(joined[c] + 1),
                         k \in Len(messages)..Len(Taken) :
                          /\ a < b
                          /\ Stream(c) = SubSeq(Taken, 1, a)
                                             \o SubSeq(Taken, b, k)
    BY DEF NoGapAfterJoin, Serving
  <2>1. PICK i \in DOMAIN members : members[i].id = c
    BY DEF MembershipInv, Known, Holds
  <2>2. /\ asked[c] \in Nat /\ joined[c] \in Nat /\ joined[c] <= Len(Taken)
        /\ \E a \in asked[c]..joined[c], b \in 1..(joined[c] + 1) :
              /\ a < b /\ b <= Sent(i) + 1
              /\ Stream(c) = Pieces(Taken, a, b, Sent(i))
    BY <2>1 DEF GapInv, Live
  <2>3. PICK a \in asked[c]..joined[c], b \in 1..(joined[c] + 1) :
            /\ a < b /\ b <= Sent(i) + 1
            /\ Stream(c) = Pieces(Taken, a, b, Sent(i))
    BY <2>2
  <2>4. PICK t, k : t = Taken /\ k = Sent(i)
    OBVIOUS
  <2>5. k \in Nat /\ k \in Len(messages)..Len(t)
    BY <2>4, SentIs
  <2>6. t \in Seq(Lines) /\ Len(t) \in Nat /\ Len(messages) \in Nat
    BY <2>4, TakenIs, LenProperties
  <2>7. a \in 0..Len(t) /\ k \in 0..Len(t) /\ b \in 1..(k + 1)
    BY <2>2, <2>3, <2>4, <2>5, <2>6
  <2>8. Pieces(t, a, b, k) = SubSeq(t, 1, a) \o SubSeq(t, b, k)
    BY <2>6, <2>7, PiecesAreSubSeqs
  <2> QED
    BY <2>3, <2>4, <2>5, <2>8
<1> QED
  BY <1>1, TypeInvariant, MembershipCorrect, GapInvariant, PTL
=============================================================================
