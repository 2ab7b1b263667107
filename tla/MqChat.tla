------------------------------- MODULE MqChat -------------------------------
(***************************************************************************)
(* The chat of task13/chat: one server with two threads and the clients    *)
(* that talk to it, and through it to each other, over ONE System V        *)
(* message queue.  Type 1 carries joins and leaves to the members thread,  *)
(* type 2 carries lines to the message thread, and type = pid is the       *)
(* mailbox of the client with that pid.  All of them share the capacity    *)
(* of the queue, so a send by anybody blocks while the queue is full.      *)
(*                                                                         *)
(* A client is named by its pid.  A line is named by its author and its    *)
(* number, not by its text: text is assumed non-empty and without '>'.     *)
(***************************************************************************)
EXTENDS Integers, Sequences, FiniteSets, FiniteSetsExt, ChatData

CONSTANTS
    Clients,    \* the pids of the clients
    Cap,        \* how many messages the kernel queue holds
    MaxLines,   \* bound: how many lines the user of a client types
    Leavers,    \* the clients whose user ever writes !exit
    Killable,   \* the clients that may be killed at any moment
    WildJoin    \* whether main's uninitialised "res" may be a wild pointer

ASSUME ClientsAssumption == Clients \cap {1, 2} = {}
ASSUME BoundsAssumption ==
    /\ Cap \in Nat \ {0}
    /\ MaxLines \in [Clients -> Nat]
    /\ Leavers \subseteq Clients /\ Killable \subseteq Clients
    /\ WildJoin \in BOOLEAN

VARIABLES
    queue,      \* queue[t]: the messages of type t, in the order sent
    removed,    \* whether the queue was removed (IPC_RMID)
    (* the server *)
    members,    \* the member table
    online,     \* members_online, a local of the members thread
    messages,   \* the lines kept for those who join later
    exitFlag,   \* exit_flag of the server
    mutex,      \* members_mutex: "free" or the thread that holds it
    memPc, memMsg, memI,    \* the members thread: place, message, loop index
    msgPc, msgMsg, msgI,    \* the message thread: place, message, loop index
    (* client c *)
    mainPc,     \* mainPc[c]: place of its main thread
    rcvPc,      \* rcvPc[c]: place of its message_handler thread
    leaving,    \* leaving[c]: its exit_flag
    typed,      \* typed[c]: how many lines its user has typed
    view,       \* view[c]: its copy of the member table
    lines,      \* lines[c]: the lines it has received
    (* history *)
    left,       \* the clients that have sent their leave
    asked,      \* asked[c]: how many lines the server had kept when it
                \* began to handle the join of c, or NotYet
    joined      \* joined[c]: how many lines the server had taken when it
                \* registered c, or NotYet

server  == <<members, online, messages, exitFlag, mutex>>
memVars == <<memPc, memMsg, memI>>
msgVars == <<msgPc, msgMsg, msgI>>
client  == <<mainPc, rcvPc, leaving, typed, view, lines, left>>
history == <<asked, joined>>
vars    == <<queue, removed, server, memVars, msgVars, client, history>>

MTypes == {1, 2} \cup Clients

(* The markers '1', '0', '3' and '4' of the text protocol.  An "exit" is   *)
(* the "3 !exit <pid>" a leaving client posts to its own mailbox: unlike a *)
(* line it has no '>' in it.                                               *)
Join(c)    == [kind |-> "join",  from |-> c, n |-> 0]
Leave(c)   == [kind |-> "leave", from |-> c, n |-> 0]
Line(c, n) == [kind |-> "line",  from |-> c, n |-> n]
Exit(c)    == [kind |-> "exit",  from |-> c, n |-> 0]
Quit(c)    == [kind |-> "quit",  from |-> c, n |-> 0]

Message == [kind : {"join", "leave", "line", "exit", "quit"},
            from : Clients, n : Nat]
Lines   == {m \in Message : m.kind = "line"}
IsLine(m) == m.kind = "line"

NotYet == -1
NoMsg  == [kind |-> "none"]

-----------------------------------------------------------------------------
(* The kernel queue.                                                       *)

Used == MapThenSumSet(LAMBDA t : Len(queue[t]), MTypes)

(* msgsnd: blocks while the queue is full.                                 *)
Send(t, m) ==
    /\ Used < Cap
    /\ queue' = [queue EXCEPT ![t] = Append(@, m)]

(* A client's msgsnd: on a queue that is gone it fails, the error is       *)
(* printed and the client goes on.                                         *)
ClientSend(t, m) ==
    \/ ~removed /\ Send(t, m)
    \/ removed /\ UNCHANGED queue

(* msgrcv of the oldest message of type t.                                 *)
Receive(t) ==
    /\ queue[t] # <<>>
    /\ queue' = [queue EXCEPT ![t] = Tail(@)]

-----------------------------------------------------------------------------
(* members_handler: one iteration is recv, lock, then for a join share and *)
(* add, then cast, check and, when nobody is left, reset and flag.         *)

MemReceive ==
    /\ memPc = "recv"
    /\ Receive(1)
    /\ memMsg' = Head(queue[1])
    /\ memPc' = "lock"
    /\ UNCHANGED <<removed, server, memI, msgVars, client, history>>

(* Fault: the counter is left alone.                                       *)
MemLeave_Uncounted ==
    /\ memPc = "lock" /\ mutex = "free" /\ memMsg.kind = "leave"
    /\ mutex' = "mem"
    /\ members' = SetOffline(members, memMsg.from)
    /\ memI' = 1
    /\ memPc' = "cast"
    /\ UNCHANGED <<queue, removed, online, messages, exitFlag, memMsg,
                   msgVars, client, history>>

MemLeave ==
    /\ memPc = "lock" /\ mutex = "free" /\ memMsg.kind = "leave"
    /\ mutex' = "mem"
    /\ members' = SetOffline(members, memMsg.from)
    /\ online' = online - 1
    /\ memI' = 1
    /\ memPc' = "cast"
    /\ UNCHANGED <<queue, removed, messages, exitFlag, memMsg, msgVars,
                   client, history>>

MemJoin ==
    /\ memPc = "lock" /\ mutex = "free" /\ memMsg.kind = "join"
    /\ mutex' = "mem"
    /\ memI' = 1
    /\ memPc' = "share"
    /\ asked' = [asked EXCEPT ![memMsg.from] = Len(messages)]
    /\ UNCHANGED <<queue, removed, members, online, messages, exitFlag,
                   memMsg, msgVars, client, joined>>

(* Fault: the last entry of the table is not shared.                       *)
MemShareMember_OffByOne ==
    /\ memPc = "share" /\ memI \in DOMAIN members
    /\ IF members[memI].online /\ memI < Len(members)
       THEN Send(memMsg.from, Join(members[memI].id))
       ELSE UNCHANGED queue
    /\ memI' = memI + 1
    /\ UNCHANGED <<removed, server, memPc, memMsg, msgVars, client, history>>

(* shair_database, one iteration: memI runs over the member table and then *)
(* over the kept lines, whose number the loop reads anew each time.        *)
MemShareMember ==
    /\ memPc = "share" /\ memI \in DOMAIN members
    /\ IF members[memI].online
       THEN Send(memMsg.from, Join(members[memI].id))
       ELSE UNCHANGED queue
    /\ memI' = memI + 1
    /\ UNCHANGED <<removed, server, memPc, memMsg, msgVars, client, history>>

MemShareLine ==
    /\ memPc = "share" /\ memI > Len(members)
    /\ memI - Len(members) \in DOMAIN messages
    /\ Send(memMsg.from, messages[memI - Len(members)])
    /\ memI' = memI + 1
    /\ UNCHANGED <<removed, server, memPc, memMsg, msgVars, client, history>>

MemShareEnd ==
    /\ memPc = "share" /\ memI > Len(members) + Len(messages)
    /\ memPc' = "add"
    /\ UNCHANGED <<queue, removed, server, memMsg, memI, msgVars, client,
                   history>>

(* The lines the message thread has taken: those kept, and the one it is   *)
(* passing on.                                                             *)
Taken == messages \o IF msgPc \in {"cast", "add"} THEN <<msgMsg>> ELSE <<>>

MemAdd ==
    /\ memPc = "add"
    /\ members' = DataAdd(members, [id |-> memMsg.from, online |-> TRUE])
    /\ online' = online + 1
    /\ memI' = 1
    /\ memPc' = "cast"
    /\ joined' = [joined EXCEPT ![memMsg.from] = Len(Taken)]
    /\ UNCHANGED <<queue, removed, messages, exitFlag, mutex, memMsg,
                   msgVars, client, asked>>

(* Fault: a join or leave is not sent back to the client it is about.      *)
MemCast_NotToSelf ==
    /\ memPc = "cast" /\ memI \in DOMAIN members
    /\ IF members[memI].id # memMsg.from
       THEN Send(members[memI].id, memMsg)
       ELSE UNCHANGED queue
    /\ memI' = memI + 1
    /\ UNCHANGED <<removed, server, memPc, memMsg, msgVars, client, history>>

(* broadcast, one iteration: to every entry, also to those offline.        *)
MemCast ==
    /\ memPc = "cast" /\ memI \in DOMAIN members
    /\ Send(members[memI].id, memMsg)
    /\ memI' = memI + 1
    /\ UNCHANGED <<removed, server, memPc, memMsg, msgVars, client, history>>

(* Fault: the server stops when one client is left.                        *)
MemCheck_TooEarly ==
    /\ memPc = "cast" /\ memI > Len(members)
    /\ mutex' = "free"
    /\ memPc' = IF online <= 1 THEN "reset" ELSE "recv"
    /\ UNCHANGED <<queue, removed, members, online, messages, exitFlag,
                   memMsg, memI, msgVars, client, history>>

(* Fault: the break leaves the mutex locked.                               *)
MemCheck_KeepsMutex ==
    /\ memPc = "cast" /\ memI > Len(members)
    /\ mutex' = IF online <= 0 THEN "mem" ELSE "free"
    /\ memPc' = IF online <= 0 THEN "reset" ELSE "recv"
    /\ UNCHANGED <<queue, removed, members, online, messages, exitFlag,
                   memMsg, memI, msgVars, client, history>>

MemCheck ==
    /\ memPc = "cast" /\ memI > Len(members)
    /\ mutex' = "free"
    /\ memPc' = IF online <= 0 THEN "reset" ELSE "recv"
    /\ UNCHANGED <<queue, removed, members, online, messages, exitFlag,
                   memMsg, memI, msgVars, client, history>>

(* members.size = 0, after the unlock.                                     *)
MemReset ==
    /\ memPc = "reset"
    /\ members' = <<>>
    /\ memPc' = "flag"
    /\ UNCHANGED <<queue, removed, online, messages, exitFlag, mutex, memMsg,
                   memI, msgVars, client, history>>

MemFlag ==
    /\ memPc = "flag"
    /\ exitFlag' = TRUE
    /\ memPc' = "done"
    /\ UNCHANGED <<queue, removed, members, online, messages, mutex, memMsg,
                   memI, msgVars, client, history>>

MembersHandler ==
    \/ MemReceive \/ MemLeave \/ MemJoin
    \/ MemShareMember \/ MemShareLine \/ MemShareEnd \/ MemAdd
    \/ MemCast \/ MemCheck \/ MemReset \/ MemFlag

-----------------------------------------------------------------------------
(* message_hendler: test, recv, then for a line cast and add, for a quit   *)
(* the look at the member table.                                           *)

MsgTest ==
    /\ msgPc = "test"
    /\ msgPc' = IF exitFlag THEN "done" ELSE "recv"
    /\ UNCHANGED <<queue, removed, server, memVars, msgMsg, msgI, client,
                   history>>

(* Fault: the broadcast of a line begins with the second entry.            *)
MsgReceive_SkipsFirst ==
    /\ msgPc = "recv"
    /\ Receive(2)
    /\ msgMsg' = Head(queue[2])
    /\ msgI' = 2
    /\ msgPc' = IF IsLine(Head(queue[2])) THEN "cast" ELSE "lock"
    /\ UNCHANGED <<removed, server, memVars, client, history>>

MsgReceive ==
    /\ msgPc = "recv"
    /\ Receive(2)
    /\ msgMsg' = Head(queue[2])
    /\ msgI' = 1
    /\ msgPc' = IF IsLine(Head(queue[2])) THEN "cast" ELSE "lock"
    /\ UNCHANGED <<removed, server, memVars, client, history>>

(* The lock is given back before the next statement that others can see.   *)
MsgQuit ==
    /\ msgPc = "lock" /\ mutex = "free"
    /\ msgPc' = IF Len(members) = 0 THEN "done" ELSE "test"
    /\ UNCHANGED <<queue, removed, server, memVars, msgMsg, msgI, client,
                   history>>

(* broadcast, one iteration, WITHOUT members_mutex.                        *)
MsgCast ==
    /\ msgPc = "cast" /\ msgI \in DOMAIN members
    /\ Send(members[msgI].id, msgMsg)
    /\ msgI' = msgI + 1
    /\ UNCHANGED <<removed, server, memVars, msgPc, msgMsg, client, history>>

MsgCastEnd ==
    /\ msgPc = "cast" /\ msgI > Len(members)
    /\ msgPc' = "add"
    /\ UNCHANGED <<queue, removed, server, memVars, msgMsg, msgI, client,
                   history>>

MsgAdd ==
    /\ msgPc = "add"
    /\ messages' = DataAdd(messages, msgMsg)
    /\ msgPc' = "test"
    /\ UNCHANGED <<queue, removed, members, online, exitFlag, mutex, memVars,
                   msgMsg, msgI, client, history>>

MessageHandler ==
    MsgTest \/ MsgReceive \/ MsgQuit \/ MsgCast \/ MsgCastEnd \/ MsgAdd

(* main of the server: both threads joined, the queue is removed.          *)
ServerEnd ==
    /\ memPc = "done" /\ msgPc = "done" /\ ~removed
    /\ removed' = TRUE
    /\ queue' = [t \in MTypes |-> <<>>]
    /\ UNCHANGED <<server, memVars, msgVars, client, history>>

-----------------------------------------------------------------------------
(* main of client c.                                                       *)

Goto(c, from, to) ==
    /\ mainPc[c] = from
    /\ mainPc' = [mainPc EXCEPT ![c] = to]

Boot(c) ==
    /\ Goto(c, "boot", "ui")
    /\ ClientSend(1, Join(c))
    /\ rcvPc' = [rcvPc EXCEPT ![c] = "test"]
    /\ UNCHANGED <<removed, server, memVars, msgVars, leaving, typed, view,
                   lines, left, history>>

(* The user types a line; main is then in msgsnd until there is room.      *)
TypeLine(c) ==
    /\ typed[c] < MaxLines[c]
    /\ Goto(c, "ui", "line")
    /\ typed' = [typed EXCEPT ![c] = @ + 1]
    /\ UNCHANGED <<queue, removed, server, memVars, msgVars, rcvPc, leaving,
                   view, lines, left, history>>

SendLine(c) ==
    /\ Goto(c, "line", "ui")
    /\ ClientSend(2, Line(c, typed[c]))
    /\ UNCHANGED <<removed, server, memVars, msgVars, rcvPc, leaving, typed,
                   view, lines, left, history>>

TypeExit(c) ==
    /\ c \in Leavers
    /\ Goto(c, "ui", "exit")
    /\ leaving' = [leaving EXCEPT ![c] = TRUE]
    /\ UNCHANGED <<queue, removed, server, memVars, msgVars, rcvPc, typed,
                   view, lines, left, history>>

SendExit(c) ==
    /\ Goto(c, "exit", "join")
    /\ ClientSend(c, Exit(c))
    /\ UNCHANGED <<removed, server, memVars, msgVars, rcvPc, leaving, typed,
                   view, lines, left, history>>

JoinThreads(c) ==
    /\ Goto(c, "join", "leave")
    /\ rcvPc[c] = "done"
    /\ UNCHANGED <<queue, removed, server, memVars, msgVars, rcvPc, leaving,
                   typed, view, lines, left, history>>

SendLeave(c) ==
    /\ Goto(c, "leave", "quit")
    /\ ClientSend(1, Leave(c))
    /\ left' = left \cup {c}
    /\ UNCHANGED <<removed, server, memVars, msgVars, rcvPc, leaving, typed,
                   view, lines, history>>

(* Fault: the second message of the farewell is a copy of the first.       *)
SendQuit_LeavesAgain(c) ==
    /\ Goto(c, "quit", "done")
    /\ ClientSend(1, Leave(c))
    /\ UNCHANGED <<removed, server, memVars, msgVars, rcvPc, leaving, typed,
                   view, lines, left, history>>

SendQuit(c) ==
    /\ Goto(c, "quit", "done")
    /\ ClientSend(2, Quit(c))
    /\ UNCHANGED <<removed, server, memVars, msgVars, rcvPc, leaving, typed,
                   view, lines, left, history>>

(* The whole process stops: by a fault or because somebody killed it.      *)
Dies(c) ==
    /\ mainPc' = [mainPc EXCEPT ![c] = "crashed"]
    /\ rcvPc' = [rcvPc EXCEPT ![c] = "crashed"]

(* pthread_join stores a result through the uninitialised pointer res.     *)
JoinFaults(c) ==
    /\ WildJoin /\ mainPc[c] = "join" /\ rcvPc[c] = "done"
    /\ Dies(c)
    /\ UNCHANGED <<queue, removed, server, memVars, msgVars, leaving, typed,
                   view, lines, left, history>>

Killed(c) ==
    /\ c \in Killable /\ mainPc[c] \notin {"boot", "done", "crashed"}
    /\ Dies(c)
    /\ UNCHANGED <<queue, removed, server, memVars, msgVars, leaving, typed,
                   view, lines, left, history>>

(* The steps the program takes by itself, and those its user decides on.   *)
MainRuns(c) ==
    \/ SendLine(c) \/ SendExit(c) \/ JoinThreads(c) \/ JoinFaults(c)
    \/ SendLeave(c) \/ SendQuit(c)

UserActs(c) == Boot(c) \/ TypeLine(c) \/ TypeExit(c) \/ Killed(c)

-----------------------------------------------------------------------------
(* message_handler of client c: it polls its mailbox.                      *)

RcvTest(c) ==
    /\ rcvPc[c] = "test"
    /\ rcvPc' = [rcvPc EXCEPT ![c] = IF leaving[c] THEN "done" ELSE "recv"]
    /\ UNCHANGED <<queue, removed, server, memVars, msgVars, mainPc,
                   leaving, typed, view, lines, left, history>>

(* ENOMSG: sleep and test again; any other error ends the thread.          *)
RcvNothing(c) ==
    /\ rcvPc[c] = "recv" /\ queue[c] = <<>>
    /\ rcvPc' = [rcvPc EXCEPT ![c] = IF removed THEN "done" ELSE "test"]
    /\ UNCHANGED <<queue, removed, server, memVars, msgVars, mainPc,
                   leaving, typed, view, lines, left, history>>

RcvJoin(c) ==
    /\ rcvPc[c] = "recv" /\ Receive(c) /\ Head(queue[c]).kind = "join"
    /\ view' = [view EXCEPT ![c] =
                   DataAdd(@, [id |-> Head(queue[c]).from, online |-> TRUE])]
    /\ rcvPc' = [rcvPc EXCEPT ![c] = "test"]
    /\ UNCHANGED <<removed, server, memVars, msgVars, mainPc, leaving,
                   typed, lines, left, history>>

RcvLeave(c) ==
    /\ rcvPc[c] = "recv" /\ Receive(c) /\ Head(queue[c]).kind = "leave"
    /\ view' = [view EXCEPT ![c] = SetOffline(@, Head(queue[c]).from)]
    /\ rcvPc' = [rcvPc EXCEPT ![c] = "test"]
    /\ UNCHANGED <<removed, server, memVars, msgVars, mainPc, leaving,
                   typed, lines, left, history>>

RcvLine(c) ==
    /\ rcvPc[c] = "recv" /\ Receive(c) /\ IsLine(Head(queue[c]))
    /\ lines' = [lines EXCEPT ![c] = DataAdd(@, Head(queue[c]))]
    /\ rcvPc' = [rcvPc EXCEPT ![c] = "test"]
    /\ UNCHANGED <<removed, server, memVars, msgVars, mainPc, leaving,
                   typed, view, left, history>>

(* "3 !exit <pid>" has no '>': strtok(NULL, ">") yields "!exit <pid>",     *)
(* which is not "!exit", and the next strtok yields NULL, which atoi reads. *)
RcvExit(c) ==
    /\ rcvPc[c] = "recv" /\ Receive(c) /\ Head(queue[c]).kind = "exit"
    /\ Dies(c)
    /\ UNCHANGED <<removed, server, memVars, msgVars, leaving, typed, view,
                   lines, left, history>>

Receiver(c) ==
    \/ RcvTest(c) \/ RcvNothing(c) \/ RcvJoin(c) \/ RcvLeave(c)
    \/ RcvLine(c) \/ RcvExit(c)

-----------------------------------------------------------------------------
Init ==
    /\ queue = [t \in MTypes |-> <<>>]
    /\ removed = FALSE
    /\ members = <<>> /\ online = 0 /\ messages = <<>>
    /\ exitFlag = FALSE /\ mutex = "free"
    /\ memPc = "recv" /\ memMsg = NoMsg /\ memI = 1
    /\ msgPc = "test" /\ msgMsg = NoMsg /\ msgI = 1
    /\ mainPc = [c \in Clients |-> "boot"]
    /\ rcvPc = [c \in Clients |-> "off"]
    /\ leaving = [c \in Clients |-> FALSE]
    /\ typed = [c \in Clients |-> 0]
    /\ view = [c \in Clients |-> <<>>]
    /\ lines = [c \in Clients |-> <<>>]
    /\ left = {}
    /\ asked = [c \in Clients |-> NotYet]
    /\ joined = [c \in Clients |-> NotYet]

Next ==
    \/ MembersHandler \/ MessageHandler \/ ServerEnd
    \/ \E c \in Clients : UserActs(c) \/ MainRuns(c) \/ Receiver(c)

Spec == Init /\ [][Next]_vars

(* The scheduler runs every thread that can run; users need do nothing.    *)
Fairness ==
    /\ WF_vars(MembersHandler) /\ WF_vars(MessageHandler) /\ WF_vars(ServerEnd)
    /\ \A c \in Clients : WF_vars(MainRuns(c)) /\ WF_vars(Receiver(c))

FairSpec == Spec /\ Fairness

-----------------------------------------------------------------------------
TypeOK ==
    /\ queue \in [MTypes -> Seq(Message)]
    /\ removed \in BOOLEAN
    /\ members \in Seq(Entry(Clients))
    /\ online \in Int
    /\ messages \in Seq(Lines)
    /\ exitFlag \in BOOLEAN
    /\ mutex \in {"free", "mem"}
    /\ memPc \in {"recv", "lock", "share", "add", "cast", "reset", "flag",
                  "done"}
    /\ memMsg \in Message \cup {NoMsg}
    /\ memI \in Nat
    /\ msgPc \in {"test", "recv", "lock", "cast", "add", "done"}
    /\ msgMsg \in Message \cup {NoMsg}
    /\ msgI \in Nat
    /\ mainPc \in [Clients -> {"boot", "ui", "line", "exit", "join", "leave",
                               "quit", "done", "crashed"}]
    /\ rcvPc \in [Clients -> {"off", "test", "recv", "done", "crashed"}]
    /\ leaving \in [Clients -> BOOLEAN]
    /\ typed \in [Clients -> Nat]
    /\ view \in [Clients -> Seq(Entry(Clients))]
    /\ lines \in [Clients -> Seq(Lines)]
    /\ left \subseteq Clients
    /\ asked \in [Clients -> Nat \cup {NotYet}]
    /\ joined \in [Clients -> Nat \cup {NotYet}]

-----------------------------------------------------------------------------
(* Safety.                                                                 *)

(* The counter on which the server decides to stop agrees with the marks   *)
(* in its member table, although the one is a local variable that is       *)
(* changed by every join and leave and the other is searched by pid        *)
(* (server.c 69-70, 79-80).                                                *)
OnlineCount == online = Cardinality(Online(members))

(* A leave the server handles comes from somebody who is in its table and  *)
(* online: data_find never yields the -1 the code would index with         *)
(* (server.c 69).                                                          *)
LeaveFound ==
    memPc = "lock" /\ memMsg.kind = "leave" =>
        \E i \in Online(members) : members[i].id = memMsg.from

(* The same for the copy of the table each client keeps: a client is told  *)
(* of a leave only after it was told of the join (client.c 157).           *)
ClientLeaveFound ==
    \A c \in Clients :
        rcvPc[c] = "recv" /\ queue[c] # <<>> /\ Head(queue[c]).kind = "leave"
            => Holds(view[c], Head(queue[c]).from)

(* The lines among the messages q, in their order.                         *)
LinesIn(q) ==
    LET first[k \in 0..Len(q)] ==
            IF k = 0 THEN <<>>
            ELSE IF IsLine(q[k]) THEN Append(first[k-1], q[k]) ELSE first[k-1]
    IN  first[Len(q)]

(* What c has received and what waits in its mailbox.                      *)
Stream(c) == lines[c] \o LinesIn(queue[c])

(* The history and the live lines fit together.  The lines on their way to *)
(* c are a beginning of the server's lines (shair_database) followed by an *)
(* unbroken stretch of later ones (broadcast): in order, none twice, none  *)
(* missing that was kept when the server turned to the join of c, and none *)
(* missing whose broadcast began after c was registered.  Only lines that  *)
(* were handled in between may be missed: broadcast and messages are used  *)
(* without members_mutex (server.c 78-79, 129-135).                        *)
NoGapAfterJoin ==
    \A c \in Clients :
        joined[c] # NotYet /\ memPc \notin {"flag", "done"} =>
            \E a \in asked[c]..joined[c], b \in 1..(joined[c] + 1),
               k \in Len(messages)..Len(Taken) :
                /\ a < b
                /\ Stream(c) = SubSeq(Taken, 1, a) \o SubSeq(Taken, b, k)

About(m, kind, c) == m.kind = kind /\ m.from = c

(* The members thread still looks at what it receives.                     *)
Serving == memPc \notin {"flag", "done"}

(* Who reads the first k messages of q, with this table, knows d.          *)
Hears(q, table, k, d) ==
    Holds(table, d) \/ \E i \in 1..k : About(q[i], "join", d)

(* c has heard of d, or will when it has emptied its mailbox.              *)
Knows(c, d) == Hears(queue[c], view[c], Len(queue[c]), d)

(* Whoever is in the server's table has been told of everybody who is      *)
(* online in it, himself too, whether he was shared the table or sent the  *)
(* join; but for those whom the broadcast of a join has not come to yet    *)
(* (server.c 63-67, 78-84).                                                *)
MembersKnowEachOther ==
    Serving => \A i, j \in DOMAIN members : members[j].online =>
        \/ Knows(members[i].id, members[j].id)
        \/ memPc = "cast" /\ About(memMsg, "join", members[j].id) /\ memI <= i

(* The server begins to stop only when every client it ever registered has *)
(* sent its leave.  A client that was killed or faulted before that keeps  *)
(* the server from stopping, however many others leave (server.c 69-70,    *)
(* 85; client.c 92, 126).                                                  *)
StopsWhenEmpty ==
    memPc \in {"reset", "flag", "done"} =>
        \A c \in Clients : joined[c] # NotYet => c \in left

(* README.md:2 of task13/chat: "to leave the chat, write !exit".  A client *)
(* whose user wrote !exit ends and does not fault.                         *)
ExitIsClean ==
    \A c \in Clients : leaving[c] => mainPc[c] # "crashed"

-----------------------------------------------------------------------------
(* Why a leave is always found: where a client stands with the server.     *)

Waiting(kind, c)  == \E i \in DOMAIN queue[1] : About(queue[1][i], kind, c)
Handling(kind, c) == /\ memPc \in {"lock", "share", "add"}
                     /\ About(memMsg, kind, c)
Present(c)        == \E i \in Online(members) : members[i].id = c

HasLeft(c)   == c \in left /\ mainPc[c] \in {"quit", "done", "crashed"}
MayLeave(c)  == mainPc[c] \in {"ui", "line", "exit", "join", "leave"}

(* Nobody is in the table twice, and only who has left is marked offline.  *)
TableOK ==
    /\ \A i, j \in DOMAIN members : members[i].id = members[j].id => i = j
    /\ \A i \in DOMAIN members : ~members[i].online => HasLeft(members[i].id)

(* A client has at most one join under way, and none once in the table.    *)
JoinOnce ==
    /\ \A i \in DOMAIN queue[1] : queue[1][i].kind = "join" =>
        LET c == queue[1][i].from IN
        /\ ~Handling("join", c) /\ ~Holds(members, c)
        /\ \A j \in DOMAIN queue[1] : About(queue[1][j], "join", c) => i = j
    /\ \A c \in Clients : Handling("join", c) => ~Holds(members, c)

(* It has at most one leave under way, the last thing it says to the       *)
(* members thread.  Until the leave is handled its join is ahead of it or  *)
(* it is in the table and online.                                          *)
LeaveAfterJoin ==
    /\ \A k \in DOMAIN queue[1] : queue[1][k].kind = "leave" =>
        LET c == queue[1][k].from IN
        /\ HasLeft(c)
        /\ \/ \E i \in 1..(k-1) : About(queue[1][i], "join", c)
           \/ Handling("join", c)
           \/ Present(c)
        /\ \A j \in DOMAIN queue[1] : About(queue[1][j], "leave", c) => j = k
    /\ \A c \in Clients : Handling("leave", c) =>
        HasLeft(c) /\ Present(c) /\ ~Waiting("leave", c)

(* Every client that has begun is known to the server, now or soon.        *)
Known ==
    \A c \in Clients :
        /\ MayLeave(c) => Waiting("join", c) \/ Handling("join", c) \/ Present(c)
        /\ mainPc[c] = "boot" => /\ ~Waiting("join", c) /\ ~Handling("join", c)
                                 /\ ~Holds(members, c)
        /\ joined[c] # NotYet => Holds(members, c)

(* The four together are inductive, while the members thread serves.       *)
MembershipInv ==
    Serving => /\ ~removed
               /\ TableOK /\ JoinOnce /\ LeaveAfterJoin /\ Known

-----------------------------------------------------------------------------
(* Liveness, under Fairness.                                               *)

(* The same sentence of the README: a client whose user wrote !exit leaves *)
(* (or faults), it does not hang in a send or in the join of its threads.  *)
LeavesWhenAsked ==
    \A c \in Clients :
        mainPc[c] = "exit" ~> mainPc[c] \in {"done", "crashed"}

(* Who joins finds himself in his list of members, unless he leaves first  *)
(* or the server had already decided to stop (server.c 83, client.c 166).  *)
JoinSeen ==
    \A c \in Clients :
        mainPc[c] = "ui" ~>
            \/ Holds(view[c], c)
            \/ leaving[c]
            \/ memPc \in {"reset", "flag", "done"}

(* When everybody has left, the server removes the queue, or its message   *)
(* thread starves: it waits for a type 2 message that nobody will send,    *)
(* because the last quit was handled before members.size was reset         *)
(* (server.c 85-88, 121-127).  There is no third outcome.                  *)
StopsOrStarves ==
    (\A c \in Clients : mainPc[c] = "done") ~>
        \/ removed
        \/ memPc = "done" /\ msgPc = "recv" /\ queue[2] = <<>>
=============================================================================
