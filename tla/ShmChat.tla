------------------------------- MODULE ShmChat -------------------------------
(***************************************************************************)
(* The chat of task14/chat: the server and the clients share two messages  *)
(* and five semaphores.  shm[0] is a request to the server, shm[1] a text  *)
(* for everybody, with one mark per client, am_i_read, that says whether   *)
(* the client has read it.                                                 *)
(*                                                                         *)
(* The semaphores: 0 wakes the members thread and 1 the message thread of  *)
(* the server, 2 is held by the writer of shm[0], 4 by the writer of       *)
(* shm[1], and 3 counts the leave to read shm[1], which any client takes.  *)
(***************************************************************************)
EXTENDS Integers, Sequences, FiniteSets, FiniteSetsExt, ChatData

CONSTANTS
    Clients,    \* the pids of the clients
    Slot,       \* Slot[c]: the hash of pid c, the index of its mark
    MaxActs,    \* bound: how often the user of a client writes anything
    Leavers,    \* the clients whose user may write !exit
    MaxTokens,  \* bound: how far semaphore 3 is counted
    WildJoin    \* whether main's uninitialised "res" may be a wild pointer

ASSUME ShmAssumption ==
    /\ Slot \in [Clients -> 0..29]
    /\ MaxActs \in [Clients -> Nat]
    /\ Leavers \subseteq Clients
    /\ MaxTokens \in Nat \ {0}
    /\ WildJoin \in BOOLEAN

VARIABLES
    (* shared *)
    sem,        \* the semaphores 0 to 4
    request,    \* shm[0]: its mtype and text
    text,       \* the text of shm[1]
    mark,       \* mark[s]: am_i_read[s] of shm[1]
    removed,    \* whether semaphores and memory were removed (IPC_RMID)
    (* the server *)
    members, online, messages, exitFlag,
    memPc, memMsg, memI,    \* the members thread: place, message, loop index
    msgPc, msgMsg,          \* the message thread: place, message
    (* client c *)
    mainPc,     \* mainPc[c]: place of its main thread
    rcvPc,      \* rcvPc[c]: place of its message_handler thread
    leaving,    \* leaving[c]: its exit_flag
    typed,      \* typed[c]: how often its user has written anything
    size        \* size[c]: the size of its own member table

shm     == <<request, text, mark, removed>>
server  == <<members, online, messages, exitFlag>>
memVars == <<memPc, memMsg, memI>>
msgVars == <<msgPc, msgMsg>>
client  == <<mainPc, rcvPc, leaving, typed, size>>
vars    == <<sem, shm, server, memVars, msgVars, client>>

Sems  == 0..4
Slots == {Slot[c] : c \in Clients}

(* The markers '1', '0', '3' and '4' of the text protocol.  The text of an *)
(* "exit" is "3 !exit>pid".                                                *)
Text(kind, c, n) == [kind |-> kind, from |-> c, n |-> n]
Message == [kind : {"join", "leave", "line", "exit", "quit"},
            from : Clients, n : Nat]
NoMsg   == [kind |-> "none"]

Init ==
    /\ sem = [s \in Sems |-> IF s \in {2, 4} THEN 1 ELSE 0]
    /\ request = [mtype |-> 0, text |-> NoMsg]
    /\ text = NoMsg
    /\ mark = [s \in Slots |-> 0]
    /\ removed = FALSE
    /\ members = <<>> /\ online = 0 /\ messages = <<>> /\ exitFlag = FALSE
    /\ memPc = "wait" /\ memMsg = NoMsg /\ memI = 1
    /\ msgPc = "while" /\ msgMsg = NoMsg
    /\ mainPc = [c \in Clients |-> "boot"]
    /\ rcvPc = [c \in Clients |-> "off"]
    /\ leaving = [c \in Clients |-> FALSE]
    /\ typed = [c \in Clients |-> 0]
    /\ size = [c \in Clients |-> 0]

-----------------------------------------------------------------------------
(* semop.  On semaphores that are gone it fails, which nobody looks at.    *)

May(s)       == removed \/ sem[s] > 0
Semop(after) == sem' = IF removed THEN sem ELSE after

Sub(s)  == May(s) /\ Semop([sem EXCEPT ![s] = @ - 1])
Post(s) == Semop([sem EXCEPT ![s] = @ + 1])

(* Semaphore 3 after n posts more.                                         *)
Tokens(n) == Min({sem[3] + Max({n, 0}), MaxTokens})
LetRead(n) == Semop([sem EXCEPT ![3] = Tokens(n)])

Checksum == MapThenSumSet(LAMBDA s : mark[s], Slots)

Fill(num) == [s \in Slots |-> num]

(* A NULL token is read by atoi: the server process ends.                  *)
ServerFaults == memPc' = "crashed" /\ msgPc' = "crashed"

-----------------------------------------------------------------------------
(* members_handler.  From MemTake to MemCheck it holds members_mutex.      *)

Locked == memPc \in {"share", "replay", "again", "cast", "text", "loop"}

MemWait ==
    /\ memPc = "wait" /\ Sub(0)
    /\ memPc' = IF request.mtype = 1 THEN "take" ELSE "wait"
    /\ UNCHANGED <<shm, server, memMsg, memI, msgVars, client>>

(* The text is copied after mtype was looked at.                           *)
MemTake ==
    /\ memPc = "take"
    /\ memMsg' = request.text
    /\ \/ /\ request.text.kind = "leave"
          /\ members' = SetOffline(members, request.text.from)
          /\ online' = online - 1
          /\ memPc' = "cast"
          /\ UNCHANGED msgPc
       \/ /\ request.text.kind = "join"
          /\ online' = online + 1
          /\ memPc' = "share"
          /\ UNCHANGED <<members, msgPc>>
       \/ /\ request.text.kind \notin {"join", "leave"}
          /\ ServerFaults
          /\ UNCHANGED <<members, online>>
    /\ UNCHANGED <<sem, shm, messages, exitFlag, memI, msgMsg, client>>

(* shair_database: one text after the other for the newcomer alone.        *)
OnlyFor(c) == [Fill(1) EXCEPT ![Slot[c]] = 0]

MemShare ==
    /\ memPc = "share" /\ Sub(4)
    /\ mark' = OnlyFor(memMsg.from)
    /\ memI' = 1
    /\ memPc' = "replay"
    /\ UNCHANGED <<request, text, removed, server, memMsg, msgVars, client>>

(* The memI-th text of the history: a member or, behind them, a line.      *)
History(i) ==
    IF i <= Len(members) THEN Text("join", members[i].id, 0)
    ELSE messages[i - Len(members)]

MemReplay ==
    /\ memPc = "replay" /\ memI \in 1..(Len(members) + Len(messages))
    /\ IF memI \in DOMAIN members /\ ~members[memI].online
       THEN memI' = memI + 1 /\ UNCHANGED <<text, memPc>>
       ELSE text' = History(memI) /\ memPc' = "again" /\ UNCHANGED memI
    /\ UNCHANGED <<sem, request, mark, removed, server, memMsg, msgVars,
                   client>>

MemAgain ==
    /\ memPc = "again" /\ mark[Slot[memMsg.from]] # 1
    /\ LetRead(2 * online)
    /\ UNCHANGED <<shm, server, memVars, msgVars, client>>

(* The mark is cleared while the text is still the old one.                *)
MemNext ==
    /\ memPc = "again" /\ mark[Slot[memMsg.from]] = 1
    /\ mark' = OnlyFor(memMsg.from)
    /\ memI' = memI + 1
    /\ memPc' = "replay"
    /\ UNCHANGED <<sem, request, text, removed, server, memMsg, msgVars,
                   client>>

(* Fault: the newcomer is counted a second time.                           *)
MemAdd_CountsAgain ==
    /\ memPc = "replay" /\ memI > Len(members) + Len(messages)
    /\ Post(4)
    /\ members' = DataAdd(members, [id |-> memMsg.from, online |-> TRUE])
    /\ online' = online + 1
    /\ memPc' = "cast"
    /\ UNCHANGED <<shm, messages, exitFlag, memMsg, memI, msgVars, client>>

MemAdd ==
    /\ memPc = "replay" /\ memI > Len(members) + Len(messages)
    /\ Post(4)
    /\ members' = DataAdd(members, [id |-> memMsg.from, online |-> TRUE])
    /\ memPc' = "cast"
    /\ UNCHANGED <<shm, online, messages, exitFlag, memMsg, memI, msgVars,
                   client>>

(* Fault: the clients are let in before the text is written.               *)
MemCast_LetsInFirst ==
    /\ memPc = "cast" /\ May(4)
    /\ Semop([sem EXCEPT ![4] = @ - 1, ![3] = Tokens(online)])
    /\ mark' = Fill(0)
    /\ memPc' = "text"
    /\ UNCHANGED <<request, text, removed, server, memMsg, memI, msgVars,
                   client>>

(* broadcast: the marks are cleared, then the text is written, then the    *)
(* clients are let in until as many have marked as members are online.     *)
MemCast ==
    /\ memPc = "cast" /\ Sub(4)
    /\ mark' = Fill(0)
    /\ memPc' = "text"
    /\ UNCHANGED <<request, text, removed, server, memMsg, memI, msgVars,
                   client>>

MemText ==
    /\ memPc = "text"
    /\ text' = memMsg
    /\ memPc' = "loop"
    /\ UNCHANGED <<sem, request, mark, removed, server, memMsg, memI,
                   msgVars, client>>

MemLoop ==
    /\ memPc = "loop" /\ Checksum # online
    /\ LetRead(online)
    /\ UNCHANGED <<shm, server, memVars, msgVars, client>>

MemCheck ==
    /\ memPc = "loop" /\ Checksum = online
    /\ Post(4)
    /\ memPc' = IF online <= 0 THEN "reset" ELSE "wait"
    /\ UNCHANGED <<shm, server, memMsg, memI, msgVars, client>>

MemReset ==
    /\ memPc = "reset"
    /\ members' = <<>>
    /\ memPc' = "flag"
    /\ UNCHANGED <<sem, shm, online, messages, exitFlag, memMsg, memI,
                   msgVars, client>>

MemFlag ==
    /\ memPc = "flag"
    /\ exitFlag' = TRUE
    /\ memPc' = "done"
    /\ UNCHANGED <<sem, shm, members, online, messages, memMsg, memI,
                   msgVars, client>>

MembersHandler ==
    \/ MemWait \/ MemTake
    \/ MemShare \/ MemReplay \/ MemAgain \/ MemNext \/ MemAdd
    \/ MemCast \/ MemText \/ MemLoop \/ MemCheck \/ MemReset \/ MemFlag

-----------------------------------------------------------------------------
(* message_hendler.                                                        *)

MsgWhile ==
    /\ msgPc = "while"
    /\ msgPc' = IF exitFlag THEN "done" ELSE "wait"
    /\ UNCHANGED <<sem, shm, server, memVars, msgMsg, client>>

MsgWait ==
    /\ msgPc = "wait" /\ Sub(1)
    /\ msgPc' = IF request.mtype = 2 THEN "take" ELSE "while"
    /\ UNCHANGED <<shm, server, memVars, msgMsg, client>>

MsgTake ==
    /\ msgPc = "take"
    /\ msgMsg' = request.text
    /\ msgPc' = IF request.text.kind = "quit" THEN "lock" ELSE "cast"
    /\ UNCHANGED <<sem, shm, server, memVars, client>>

MsgQuit ==
    /\ msgPc = "lock" /\ ~Locked
    /\ msgPc' = IF Len(members) = 0 THEN "done" ELSE "while"
    /\ UNCHANGED <<sem, shm, server, memVars, msgMsg, client>>

(* Fault: the text is written without semaphore 4.                         *)
MsgCast_NoSemaphore ==
    /\ msgPc = "cast"
    /\ mark' = Fill(0)
    /\ msgPc' = "text"
    /\ UNCHANGED <<sem, request, text, removed, server, memVars, msgMsg,
                   client>>

MsgCast ==
    /\ msgPc = "cast" /\ Sub(4)
    /\ mark' = Fill(0)
    /\ msgPc' = "text"
    /\ UNCHANGED <<request, text, removed, server, memVars, msgMsg, client>>

MsgText ==
    /\ msgPc = "text"
    /\ text' = msgMsg
    /\ msgPc' = "loop"
    /\ UNCHANGED <<sem, request, mark, removed, server, memVars, msgMsg,
                   client>>

MsgLoop ==
    /\ msgPc = "loop" /\ Checksum # online
    /\ LetRead(online)
    /\ UNCHANGED <<shm, server, memVars, msgVars, client>>

(* A join or a leave taken for a line has no '>': atoi reads NULL.         *)
MsgAdd ==
    /\ msgPc = "loop" /\ Checksum = online
    /\ Post(4)
    /\ IF msgMsg.kind = "line"
       THEN /\ messages' = DataAdd(messages, msgMsg)
            /\ msgPc' = "while" /\ UNCHANGED memPc
       ELSE ServerFaults /\ UNCHANGED messages
    /\ UNCHANGED <<shm, members, online, exitFlag, memMsg, memI, msgMsg,
                   client>>

MessageHandler ==
    \/ MsgWhile \/ MsgWait \/ MsgTake \/ MsgQuit
    \/ MsgCast \/ MsgText \/ MsgLoop \/ MsgAdd

ServerEnd ==
    /\ memPc = "done" /\ msgPc = "done" /\ ~removed
    /\ removed' = TRUE
    /\ UNCHANGED <<sem, request, text, mark, server, memVars, msgVars, client>>

-----------------------------------------------------------------------------
(* main of client c.                                                       *)

Goto(c, from, to) ==
    /\ mainPc[c] = from
    /\ mainPc' = [mainPc EXCEPT ![c] = to]

(* send_message to shm[0]: write the request, wake the thread for mtype,   *)
(* and after 100 ms give shm[0] free, whether it was read or not.          *)
Ask(c, mtype, message) ==
    /\ May(2)
    /\ request' = [mtype |-> mtype, text |-> message]
    /\ Semop([sem EXCEPT ![2] = @ - 1, ![mtype - 1] = @ + 1])
    /\ UNCHANGED <<text, mark, removed, server, memVars, msgVars, rcvPc,
                   leaving, size>>

(* Fault: the writer wakes the server and forgets to free shm[0].          *)
Free_Not(c) ==
    /\ \/ Goto(c, "boot2", "ui") \/ Goto(c, "line2", "ui")
       \/ Goto(c, "leave2", "quit") \/ Goto(c, "quit2", "done")
    /\ rcvPc' = IF mainPc[c] = "boot2" THEN [rcvPc EXCEPT ![c] = "while"]
                ELSE rcvPc
    /\ UNCHANGED <<sem, shm, server, memVars, msgVars, leaving, typed, size>>

(* After the join, the reading thread is started.                          *)
Free(c) ==
    /\ \/ Goto(c, "boot2", "ui") \/ Goto(c, "line2", "ui")
       \/ Goto(c, "leave2", "quit") \/ Goto(c, "quit2", "done")
    /\ Post(2)
    /\ rcvPc' = IF mainPc[c] = "boot2" THEN [rcvPc EXCEPT ![c] = "while"]
                ELSE rcvPc
    /\ UNCHANGED <<shm, server, memVars, msgVars, leaving, typed, size>>

Boot(c) ==
    /\ Goto(c, "boot", "boot2")
    /\ Ask(c, 1, Text("join", c, 0))
    /\ UNCHANGED typed

TypeLine(c) ==
    /\ typed[c] < MaxActs[c]
    /\ Goto(c, "ui", "line")
    /\ typed' = [typed EXCEPT ![c] = @ + 1]
    /\ UNCHANGED <<sem, shm, server, memVars, msgVars, rcvPc, leaving, size>>

SendLine(c) ==
    /\ Goto(c, "line", "line2")
    /\ Ask(c, 2, Text("line", c, typed[c]))
    /\ UNCHANGED typed

TypeExit(c) ==
    /\ c \in Leavers /\ typed[c] < MaxActs[c]
    /\ Goto(c, "ui", "exit")
    /\ typed' = [typed EXCEPT ![c] = @ + 1]
    /\ leaving' = [leaving EXCEPT ![c] = TRUE]
    /\ UNCHANGED <<sem, shm, server, memVars, msgVars, rcvPc, size>>

(* send_message to shm[1]: it leaves the marks as they are and lets in as  *)
(* many clients as this client has members in its table.                   *)
SendExit(c) ==
    /\ Goto(c, "exit", "exit2") /\ May(4)
    /\ text' = Text("exit", c, 0)
    /\ Semop([sem EXCEPT ![4] = @ - 1, ![3] = Tokens(size[c])])
    /\ UNCHANGED <<request, mark, removed, server, memVars, msgVars, rcvPc,
                   leaving, typed, size>>

FreeExit(c) ==
    /\ Goto(c, "exit2", "join")
    /\ Post(4)
    /\ UNCHANGED <<shm, server, memVars, msgVars, rcvPc, leaving, typed, size>>

JoinThreads(c) ==
    /\ Goto(c, "join", "leave")
    /\ rcvPc[c] = "done"
    /\ UNCHANGED <<sem, shm, server, memVars, msgVars, rcvPc, leaving, typed,
                   size>>

(* pthread_join stores a result through the uninitialised pointer res.     *)
JoinFaults(c) ==
    /\ WildJoin /\ rcvPc[c] = "done"
    /\ Goto(c, "join", "crashed")
    /\ UNCHANGED <<sem, shm, server, memVars, msgVars, rcvPc, leaving, typed,
                   size>>

SendLeave(c) ==
    /\ Goto(c, "leave", "leave2")
    /\ Ask(c, 1, Text("leave", c, 0))
    /\ UNCHANGED typed

SendQuit(c) ==
    /\ Goto(c, "quit", "quit2")
    /\ Ask(c, 2, Text("quit", c, 0))
    /\ UNCHANGED typed

MainRuns(c) ==
    \/ Free(c) \/ SendLine(c) \/ SendExit(c) \/ FreeExit(c)
    \/ JoinThreads(c) \/ JoinFaults(c) \/ SendLeave(c) \/ SendQuit(c)

UserActs(c) == Boot(c) \/ TypeLine(c) \/ TypeExit(c)

-----------------------------------------------------------------------------
(* message_handler of client c.                                            *)

RcvGoto(c, from, to) ==
    /\ rcvPc[c] = from
    /\ rcvPc' = [rcvPc EXCEPT ![c] = to]

RcvWhile(c) ==
    /\ RcvGoto(c, "while", IF leaving[c] THEN "done" ELSE "wait")
    /\ UNCHANGED <<sem, shm, server, memVars, msgVars, mainPc, leaving, typed,
                   size>>

(* Fault: the client reads without leaving its mark.                       *)
RcvLook_NoMark(c) ==
    /\ RcvGoto(c, "wait", "read") /\ Sub(3)
    /\ mark[Slot[c]] # 1
    /\ UNCHANGED <<shm, server, memVars, msgVars, mainPc, leaving, typed,
                   size>>

(* The mark is set before the text is copied.                              *)
RcvLook(c) ==
    /\ RcvGoto(c, "wait", "read") /\ Sub(3)
    /\ mark[Slot[c]] # 1
    /\ mark' = [mark EXCEPT ![Slot[c]] = 1]
    /\ UNCHANGED <<request, text, removed, server, memVars, msgVars,
                   mainPc, leaving, typed, size>>

RcvRead(c) ==
    /\ RcvGoto(c, "read", "while")
    /\ size' = IF text.kind = "join" THEN [size EXCEPT ![c] = @ + 1] ELSE size
    /\ UNCHANGED <<sem, shm, server, memVars, msgVars, mainPc, leaving, typed>>

(* A text already read: the mark is stored again, one look later.          *)
RcvSeen(c) ==
    /\ RcvGoto(c, "wait", "skip") /\ Sub(3)
    /\ mark[Slot[c]] = 1
    /\ UNCHANGED <<shm, server, memVars, msgVars, mainPc, leaving, typed,
                   size>>

RcvSkip(c) ==
    /\ RcvGoto(c, "skip", "while")
    /\ mark' = [mark EXCEPT ![Slot[c]] = 1]
    /\ UNCHANGED <<sem, request, text, removed, server, memVars, msgVars,
                   mainPc, leaving, typed, size>>

Receiver(c) ==
    \/ RcvWhile(c) \/ RcvLook(c) \/ RcvRead(c)
    \/ RcvSeen(c) \/ RcvSkip(c)

-----------------------------------------------------------------------------
Next ==
    \/ MembersHandler \/ MessageHandler \/ ServerEnd
    \/ \E c \in Clients : UserActs(c) \/ MainRuns(c) \/ Receiver(c)

Spec == Init /\ [][Next]_vars

(* The scheduler runs every thread that can run.  The kernel wakes those   *)
(* who wait for a semaphore in the order of their semop, so that no client *)
(* is passed over for ever at semaphore 3.  Users need do nothing.         *)
Fairness ==
    /\ WF_vars(MembersHandler) /\ WF_vars(MessageHandler)
    /\ WF_vars(ServerEnd)
    /\ \A c \in Clients : WF_vars(MainRuns(c)) /\ SF_vars(Receiver(c))

FairSpec == Spec /\ Fairness

TypeOK ==
    /\ sem \in [Sems -> Nat]
    /\ request \in [mtype : 0..2, text : Message \cup {NoMsg}]
    /\ text \in Message \cup {NoMsg}
    /\ mark \in [Slots -> 0..1]
    /\ removed \in BOOLEAN
    /\ members \in Seq(Entry(Clients)) /\ online \in Int
    /\ messages \in Seq(Message) /\ exitFlag \in BOOLEAN
    /\ memPc \in {"wait", "take", "share", "replay", "again", "cast",
                  "text", "loop", "reset", "flag", "done", "crashed"}
    /\ memMsg \in Message \cup {NoMsg} /\ memI \in Nat
    /\ msgPc \in {"while", "wait", "take", "lock", "cast", "text",
                  "loop", "done", "crashed"}
    /\ msgMsg \in Message \cup {NoMsg}
    /\ mainPc \in [Clients -> {"boot", "boot2", "ui", "line", "line2", "exit",
                               "exit2", "join", "leave", "leave2", "quit",
                               "quit2", "done", "crashed"}]
    /\ rcvPc \in [Clients -> {"off", "while", "wait", "read", "skip",
                              "done"}]
    /\ leaving \in [Clients -> BOOLEAN] /\ typed \in [Clients -> Nat]
    /\ size \in [Clients -> Nat]

-----------------------------------------------------------------------------
(* One writer of shm[1] at a time: a text that the server lets the clients *)
(* read is neither overwritten by the other thread nor by the !exit of a   *)
(* client before the loop is over (server.c 206, 224, 228, 261, client.c   *)
(* 281-288).                                                               *)
TextStays ==
    /\ memPc = "loop" => text = memMsg
    /\ msgPc = "loop" => text = msgMsg
    /\ memPc = "again" => text = History(memI)

(* No client copies shm[1] before there is a text in it, which strtok      *)
(* would make a NULL that strcmp reads: the marks are cleared before the   *)
(* first text is written, but nobody has leave to read (client.c 176-183). *)
ReadsSomething == \A c \in Clients : rcvPc[c] = "read" => text # NoMsg

(* Who holds semaphore 2 to ask something of the server, and who holds 4   *)
(* to write into the message of the broadcasts.                            *)
Asks(c)    == mainPc[c] \in {"boot2", "line2", "leave2", "quit2"}
MemHolds   == memPc \in {"replay", "again", "text", "loop"}
MsgHolds   == msgPc \in {"text", "loop"}
Holds4(c)  == mainPc[c] = "exit2"
SomeClient == \E c \in Clients : Holds4(c)

(* Semaphores 2 and 4 are each taken by one writer or free: no step of a   *)
(* thread frees one twice or forgets to, whoever had to wait, as long as   *)
(* the server has not faulted with semaphore 4 in its hands (client.c      *)
(* 274-288, server.c 206-231).                                             *)
SemaphoresKept ==
    ~removed =>
        /\ sem[2] = IF \E c \in Clients : Asks(c) THEN 0 ELSE 1
        /\ \A c, d \in Clients : Asks(c) /\ Asks(d) => c = d
        /\ memPc # "crashed" =>
              sem[4] = IF MemHolds \/ MsgHolds \/ SomeClient THEN 0 ELSE 1

(* A client that wants shm[0] gets it, whatever the server does meanwhile: *)
(* a request never waits for the server (client.c 274-279).                *)
RequestsGoOn ==
    \A c \in Clients :
        mainPc[c] \in {"boot2", "line", "leave", "quit"} ~>
            mainPc[c] \in {"ui", "exit", "done"}

(* The newcomer is given the history to its end, unless it leaves or the   *)
(* server faults: shair_database waits only for its mark (server.c 227).   *)
NewcomerServed ==
    \A c \in Clients :
        memPc = "again" /\ memMsg.from = c ~>
            memPc \in {"cast", "crashed"} \/ leaving[c]

(* Two pids may be equal mod 30: their clients then share a mark, and the  *)
(* server waits for more marks than there are.                             *)
SlotsDiffer == \A c, d \in Clients : Slot[c] = Slot[d] => c = d

(* A broadcast ends, although the number of marks it waits for belongs to  *)
(* the other thread and a client may store a mark without having read; but *)
(* for two ways in which that exact number is missed.  A client may stop   *)
(* to read and leave, and a newcomer may set a mark before its join is     *)
(* counted: there are then more marks than members, and none is taken back *)
(* (server.c 128, 217; client.c 177-178, 215).                             *)
BroadcastEnds ==
    SlotsDiffer /\ (memPc = "loop" \/ msgPc = "loop") ~>
        \/ memPc # "loop" /\ msgPc # "loop"
        \/ Checksum > online
        \/ \E c \in Clients : leaving[c]

(* README.md:2 of task14/chat: "to leave the chat, write !exit".  A client *)
(* whose user wrote !exit ends.                                            *)
LeavesWhenAsked ==
    \A c \in Clients : mainPc[c] = "exit" ~> mainPc[c] \in {"done", "crashed"}
=============================================================================
