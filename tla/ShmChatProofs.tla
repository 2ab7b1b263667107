---------------------------- MODULE ShmChatProofs ----------------------------
(***************************************************************************)
(* The chat over shared memory, for any number of clients and whatever     *)
(* their slots.  TextStays: semaphore 4 keeps the writers of shm[1] apart, *)
(* although a server thread or a client may end with the semaphore held,   *)
(* and although semop lets everybody through when it is gone.              *)
(* ReadsSomething: nobody reads shm[1] before there is a text.             *)
(***************************************************************************)
EXTENDS ShmChat, SequenceTheorems, TLAPS

(* At most one holds semaphore 4, and then it is 0, and only then, unless  *)
(* the server has faulted and taken it with it.  The semaphore goes    *)
(* when both threads of the server are done.                               *)
OneHolder ==
    /\ DOMAIN sem = Sems /\ DOMAIN mainPc = Clients
    /\ removed => memPc = "done" /\ msgPc = "done"
    /\ ~removed =>
        /\ sem[4] \in 0..1
        /\ MemHolds \/ MsgHolds \/ SomeClient => sem[4] = 0
        /\ sem[4] = 0 /\ memPc # "crashed" => MemHolds \/ MsgHolds \/ SomeClient
        /\ ~(MemHolds /\ MsgHolds)
        /\ SomeClient => ~MemHolds /\ ~MsgHolds
        /\ \A c, d \in Clients : Holds4(c) /\ Holds4(d) => c = d

TextInv == OneHolder /\ TextStays

LEMMA TextInit == Init => TextInv
  BY DEF Init, TextInv, OneHolder, TextStays, MemHolds, MsgHolds, Holds4,
     SomeClient, Sems

(* A step that leaves alone what the invariant speaks of.                  *)
LEMMA TextIdle ==
    ASSUME TextInv, memPc' = memPc, msgPc' = msgPc, mainPc' = mainPc,
           UNCHANGED <<sem, removed, text, members, messages, memMsg, memI,
                       msgMsg>>
    PROVE  TextInv'
  BY DEF TextInv, OneHolder, TextStays, MemHolds, MsgHolds, Holds4,
     SomeClient, History

(* The members thread.                                                     *)
LEMMA TextMembers == ASSUME TextInv, MembersHandler PROVE TextInv'
<1> USE DEF TextInv, OneHolder, TextStays, MemHolds, MsgHolds, Holds4,
            SomeClient
<1>1. CASE MemWait
  <2>1. DOMAIN sem' = Sems /\ sem'[4] = sem[4]
    BY <1>1 DEF MemWait, Sub, Semop, Sems
  <2> QED
    BY <1>1, <2>1 DEF MemWait, shm, server, msgVars, client, History
<1>2. CASE MemTake
  BY <1>2 DEF MemTake, ServerFaults, shm, client, History
<1>3. CASE MemShare
  <2>1. ~removed
    BY <1>3 DEF MemShare
  <2>2. /\ DOMAIN sem' = Sems /\ sem[4] = 1 /\ sem'[4] = 0
    BY <1>3, <2>1 DEF MemShare, Sub, May, Semop, Sems
  <2> QED
    BY <1>3, <2>1, <2>2 DEF MemShare, server, msgVars, client, History
<1>4. CASE MemReplay
  BY <1>4 DEF MemReplay, server, msgVars, client, History
<1>5. CASE MemAgain
  <2>1. DOMAIN sem' = Sems /\ sem'[4] = sem[4]
    BY <1>5 DEF MemAgain, LetRead, Semop, Sems
  <2> QED
    BY <1>5, <2>1 DEF MemAgain, shm, server, memVars, msgVars, client, History
<1>6. CASE MemNext
  BY <1>6 DEF MemNext, server, msgVars, client
<1>7. CASE MemAdd
  <2>1. ~removed
    BY <1>7 DEF MemAdd
  <2>2. DOMAIN sem' = Sems /\ sem'[4] = 1
    BY <1>7, <2>1 DEF MemAdd, Post, Semop, Sems
  <2> QED
    BY <1>7, <2>1, <2>2 DEF MemAdd, shm, msgVars, client
<1>8. CASE MemCast
  <2>1. ~removed
    BY <1>8 DEF MemCast
  <2>2. DOMAIN sem' = Sems /\ sem[4] = 1 /\ sem'[4] = 0
    BY <1>8, <2>1 DEF MemCast, Sub, May, Semop, Sems
  <2> QED
    BY <1>8, <2>1, <2>2 DEF MemCast, server, msgVars, client
<1>9. CASE MemText
  BY <1>9 DEF MemText, server, msgVars, client
<1>10. CASE MemLoop
  <2>1. DOMAIN sem' = Sems /\ sem'[4] = sem[4]
    BY <1>10 DEF MemLoop, LetRead, Semop, Sems
  <2> QED
    BY <1>10, <2>1 DEF MemLoop, shm, server, memVars, msgVars, client
<1>11. CASE MemCheck
  <2>1. ~removed
    BY <1>11 DEF MemCheck
  <2>2. DOMAIN sem' = Sems /\ sem'[4] = 1
    BY <1>11, <2>1 DEF MemCheck, Post, Semop, Sems
  <2> QED
    BY <1>11, <2>1, <2>2 DEF MemCheck, shm, server, msgVars, client
<1>12. CASE MemReset
  BY <1>12 DEF MemReset, shm, msgVars, client
<1>13. CASE MemFlag
  BY <1>13 DEF MemFlag, shm, msgVars, client
<1> QED
  BY <1>1, <1>2, <1>3, <1>4, <1>5, <1>6, <1>7, <1>8, <1>9, <1>10, <1>11,
     <1>12, <1>13 DEF MembersHandler

(* The message thread and the end of the server.                           *)
LEMMA TextMessages ==
    ASSUME TextInv, MessageHandler \/ ServerEnd PROVE TextInv'
<1> USE DEF TextInv, OneHolder, TextStays, MemHolds, MsgHolds, Holds4,
            SomeClient
<1>1. CASE MsgWhile
  BY <1>1 DEF MsgWhile, shm, server, memVars, client, History
<1>2. CASE MsgWait
  <2>1. DOMAIN sem' = Sems /\ sem'[4] = sem[4]
    BY <1>2 DEF MsgWait, Sub, Semop, Sems
  <2> QED
    BY <1>2, <2>1 DEF MsgWait, shm, server, memVars, client, History
<1>3. CASE MsgTake
  BY <1>3 DEF MsgTake, shm, server, memVars, client, History
<1>4. CASE MsgQuit
  BY <1>4 DEF MsgQuit, shm, server, memVars, client, History
<1>5. CASE MsgCast
  <2>1. ~removed
    BY <1>5 DEF MsgCast
  <2>2. DOMAIN sem' = Sems /\ sem[4] = 1 /\ sem'[4] = 0
    BY <1>5, <2>1 DEF MsgCast, Sub, May, Semop, Sems
  <2> QED
    BY <1>5, <2>1, <2>2 DEF MsgCast, server, memVars, client, History
<1>6. CASE MsgText
  BY <1>6 DEF MsgText, server, memVars, client
<1>7. CASE MsgLoop
  <2>1. DOMAIN sem' = Sems /\ sem'[4] = sem[4]
    BY <1>7 DEF MsgLoop, LetRead, Semop, Sems
  <2> QED
    BY <1>7, <2>1 DEF MsgLoop, shm, server, memVars, msgVars, client
<1>8. CASE MsgAdd
  <2>1. ~removed
    BY <1>8 DEF MsgAdd
  <2>2. DOMAIN sem' = Sems /\ sem'[4] = 1
    BY <1>8, <2>1 DEF MsgAdd, Post, Semop, Sems
  <2> QED
    BY <1>8, <2>1, <2>2 DEF MsgAdd, ServerFaults, shm, client
<1>9. CASE ServerEnd
  BY <1>9 DEF ServerEnd, server, memVars, msgVars, client
<1> QED
  BY <1>1, <1>2, <1>3, <1>4, <1>5, <1>6, <1>7, <1>8, <1>9 DEF MessageHandler

(* Both threads of a client.                                               *)
LEMMA TextClient ==
    ASSUME TextInv, NEW c \in Clients,
           UserActs(c) \/ MainRuns(c) \/ Receiver(c)
    PROVE  TextInv'
<1> USE DEF TextInv, OneHolder, TextStays, MemHolds, MsgHolds, Holds4,
            SomeClient
<1>1. CASE Boot(c) \/ SendLine(c) \/ SendLeave(c) \/ SendQuit(c)
  <2>1. PICK mtype, message : mtype \in 1..2 /\ Ask(c, mtype, message)
    BY <1>1 DEF Boot, SendLine, SendLeave, SendQuit
  <2>2. DOMAIN sem' = Sems /\ sem'[4] = sem[4]
    BY <2>1 DEF Ask, Semop, Sems
  <2>3. /\ mainPc' \in {[mainPc EXCEPT ![c] = to] :
                          to \in {"boot2", "line2", "leave2", "quit2"}}
        /\ mainPc[c] # "exit2"
    BY <1>1 DEF Boot, SendLine, SendLeave, SendQuit, Goto
  <2> QED
    BY <2>1, <2>2, <2>3 DEF Ask, server, memVars, msgVars, History
<1>2. CASE Free(c)
  <2>1. DOMAIN sem' = Sems /\ sem'[4] = sem[4]
    BY <1>2 DEF Free, Post, Semop, Sems
  <2> QED
    BY <1>2, <2>1 DEF Free, Goto, shm, server, memVars, msgVars, History
<1>3. CASE TypeLine(c) \/ TypeExit(c) \/ JoinThreads(c) \/ JoinFaults(c)
  BY <1>3 DEF TypeLine, TypeExit, JoinThreads, JoinFaults, Goto, shm, server,
     memVars, msgVars, History
<1>4. CASE SendExit(c)
  <2>1. DOMAIN sem' = Sems
    BY <1>4 DEF SendExit, Semop, Sems
  <2>2. ASSUME ~removed PROVE sem[4] = 1 /\ sem'[4] = 0
    BY <1>4, <2>2 DEF SendExit, May, Semop, Sems
  <2> QED
    BY <1>4, <2>1, <2>2
    DEF SendExit, Goto, server, memVars, msgVars, History
<1>5. CASE FreeExit(c)
  <2>1. DOMAIN sem' = Sems
    BY <1>5 DEF FreeExit, Post, Semop, Sems
  <2>2. ASSUME ~removed PROVE sem[4] = 0 /\ sem'[4] = 1
    BY <1>5, <2>2 DEF FreeExit, Goto, Post, Semop, Sems
  <2> QED
    BY <1>5, <2>1, <2>2
    DEF FreeExit, Goto, shm, server, memVars, msgVars, History
<1>6. CASE Receiver(c)
  <2>1. DOMAIN sem' = Sems /\ sem'[4] = sem[4]
    BY <1>6 DEF Receiver, RcvWhile, RcvLook, RcvRead, RcvSeen, RcvSkip, Sub,
       Semop, Sems
  <2> QED
    BY <1>6, <2>1 DEF Receiver, RcvWhile, RcvLook, RcvRead, RcvSeen, RcvSkip,
       shm, server, memVars, msgVars, History
<1> QED
  BY <1>1, <1>2, <1>3, <1>4, <1>5, <1>6 DEF UserActs, MainRuns

LEMMA TextStep == ASSUME TextInv, [Next]_vars PROVE TextInv'
<1>1. CASE UNCHANGED vars
  BY <1>1, TextIdle DEF vars, shm, server, memVars, msgVars, client
<1> QED
  BY <1>1, TextMembers, TextMessages, TextClient DEF Next

(* A text that the clients are let in to read is the one its writer wrote, *)
(* for every number of clients.                                            *)
THEOREM TextAlwaysStays == Spec => []TextStays
<1>1. TextInv /\ [Next]_vars => TextInv'
  BY TextStep
<1>2. TextInv => TextStays
  BY DEF TextInv
<1> QED
  BY <1>1, <1>2, TextInit, PTL DEF Spec
-----------------------------------------------------------------------------
(* Semaphore 2.                                                            *)
OneAsks ==
    /\ DOMAIN sem = Sems /\ DOMAIN mainPc = Clients
    /\ ~removed =>
        /\ sem[2] = IF \E c \in Clients : Asks(c) THEN 0 ELSE 1
        /\ \A c, d \in Clients : Asks(c) /\ Asks(d) => c = d

(* Whoever leaves it alone.                                                *)
LEMMA AskIdle ==
    ASSUME OneAsks, DOMAIN sem' = Sems, sem'[2] = sem[2], mainPc' = mainPc,
           removed => removed'
    PROVE  OneAsks'
  BY DEF OneAsks, Asks

LEMMA AskServer ==
    ASSUME OneAsks, MembersHandler \/ MessageHandler \/ ServerEnd PROVE OneAsks'
<1>1. DOMAIN sem = Sems
  BY DEF OneAsks
<1>2. CASE MembersHandler
  <2>1. UNCHANGED <<mainPc, removed>>
    BY <1>2 DEF MembersHandler, MemWait, MemTake, MemShare, MemReplay, MemAgain,
       MemNext, MemAdd, MemCast, MemText, MemLoop, MemCheck, MemReset, MemFlag,
       shm, client
  <2>2. DOMAIN sem' = Sems /\ sem'[2] = sem[2]
    <3>1. CASE MemWait
      BY <1>1, <3>1 DEF MemWait, Sub, Semop, Sems
    <3>2. CASE MemShare \/ MemCast
      BY <1>1, <3>2 DEF MemShare, MemCast, Sub, Semop, Sems
    <3>3. CASE MemAgain \/ MemLoop
      BY <1>1, <3>3 DEF MemAgain, MemLoop, LetRead, Semop, Sems
    <3>4. CASE MemAdd \/ MemCheck
      BY <1>1, <3>4 DEF MemAdd, MemCheck, Post, Semop, Sems
    <3>5. CASE UNCHANGED sem
      BY <1>1, <3>5
    <3> QED
      BY <1>2, <3>1, <3>2, <3>3, <3>4, <3>5
      DEF MembersHandler, MemTake, MemReplay, MemNext, MemText, MemReset, MemFlag
  <2> QED
    BY <2>1, <2>2, AskIdle
<1>3. CASE MessageHandler
  <2>1. UNCHANGED <<mainPc, removed>>
    BY <1>3 DEF MessageHandler, MsgWhile, MsgWait, MsgTake, MsgQuit, MsgCast,
       MsgText, MsgLoop, MsgAdd, shm, client
  <2>2. DOMAIN sem' = Sems /\ sem'[2] = sem[2]
    <3>1. CASE MsgWait \/ MsgCast
      BY <1>1, <3>1 DEF MsgWait, MsgCast, Sub, Semop, Sems
    <3>2. CASE MsgLoop
      BY <1>1, <3>2 DEF MsgLoop, LetRead, Semop, Sems
    <3>3. CASE MsgAdd
      BY <1>1, <3>3 DEF MsgAdd, Post, Semop, Sems
    <3>4. CASE UNCHANGED sem
      BY <1>1, <3>4
    <3> QED
      BY <1>3, <3>1, <3>2, <3>3, <3>4
      DEF MessageHandler, MsgWhile, MsgTake, MsgQuit, MsgText
  <2> QED
    BY <2>1, <2>2, AskIdle
<1>4. CASE ServerEnd
  BY <1>1, <1>4, AskIdle DEF ServerEnd, client
<1> QED
  BY <1>2, <1>3, <1>4

LEMMA AskClient ==
    ASSUME OneAsks, NEW c \in Clients, UserActs(c) \/ MainRuns(c) \/ Receiver(c)
    PROVE  OneAsks'
<1>0. DOMAIN sem = Sems /\ DOMAIN mainPc = Clients
  BY DEF OneAsks
<1>1. CASE Boot(c) \/ SendLine(c) \/ SendLeave(c) \/ SendQuit(c)
  <2>1. PICK mtype, message : mtype \in 1..2 /\ Ask(c, mtype, message)
    BY <1>1 DEF Boot, SendLine, SendLeave, SendQuit
  <2>2. UNCHANGED removed /\ DOMAIN sem' = Sems
    BY <1>0, <2>1 DEF Ask, Semop, Sems
  <2>3. ~removed => sem[2] > 0 /\ sem'[2] = sem[2] - 1
    BY <1>0, <2>1 DEF Ask, May, Semop, Sems
  <2>4. /\ DOMAIN mainPc' = Clients /\ Asks(c)'
        /\ \A d \in Clients \ {c} : mainPc'[d] = mainPc[d]
    BY <1>0, <1>1 DEF Boot, SendLine, SendLeave, SendQuit, Goto, Asks
  <2>5. ~removed => sem[2] = 1 /\ \A d \in Clients : ~Asks(d)
    BY <2>3 DEF OneAsks
  <2>6. ~removed => sem'[2] = 0
    BY <2>3, <2>5
  <2>7. \A d \in Clients \ {c} : ~removed => ~Asks(d)'
    BY <2>4, <2>5 DEF Asks
  <2> QED
    BY <2>2, <2>4, <2>6, <2>7 DEF OneAsks
<1>2. CASE Free(c)
  <2>1. UNCHANGED removed /\ DOMAIN sem' = Sems
    BY <1>0, <1>2 DEF Free, Post, Semop, Sems, shm
  <2>2. ~removed => sem'[2] = sem[2] + 1
    BY <1>0, <1>2 DEF Free, Post, Semop, Sems
  <2>3. /\ Asks(c) /\ DOMAIN mainPc' = Clients /\ ~Asks(c)'
        /\ \A d \in Clients \ {c} : mainPc'[d] = mainPc[d]
    BY <1>0, <1>2 DEF Free, Goto, Asks
  <2>4. ~removed => sem[2] = 0 /\ \A d \in Clients \ {c} : ~Asks(d)
    BY <2>3 DEF OneAsks
  <2>5. ~removed => sem'[2] = 1
    BY <2>2, <2>4
  <2>6. ~removed => \A d \in Clients : ~Asks(d)'
    BY <2>3, <2>4 DEF Asks
  <2> QED
    BY <2>1, <2>3, <2>5, <2>6 DEF OneAsks
<1>3. CASE TypeLine(c) \/ TypeExit(c) \/ JoinThreads(c) \/ JoinFaults(c)
           \/ SendExit(c) \/ FreeExit(c)
  <2>1. UNCHANGED removed /\ DOMAIN sem' = Sems /\ sem'[2] = sem[2]
    <3>1. CASE SendExit(c) \/ FreeExit(c)
      BY <1>0, <3>1 DEF SendExit, FreeExit, Post, Semop, Sems, shm
    <3>2. CASE TypeLine(c) \/ TypeExit(c) \/ JoinThreads(c) \/ JoinFaults(c)
      BY <1>0, <3>2 DEF TypeLine, TypeExit, JoinThreads, JoinFaults, shm
    <3> QED
      BY <1>3, <3>1, <3>2
  <2>2. /\ DOMAIN mainPc' = Clients /\ ~Asks(c) /\ ~Asks(c)'
        /\ \A d \in Clients \ {c} : mainPc'[d] = mainPc[d]
    BY <1>0, <1>3 DEF TypeLine, TypeExit, JoinThreads, JoinFaults, SendExit,
       FreeExit, Goto, Asks
  <2>3. \A d \in Clients : Asks(d)' <=> Asks(d)
    BY <2>2 DEF Asks
  <2> QED
    BY <2>1, <2>2, <2>3 DEF OneAsks
<1>4. CASE Receiver(c)
  <2>1. UNCHANGED <<mainPc, removed>>
    BY <1>4 DEF Receiver, RcvWhile, RcvLook, RcvRead, RcvSeen, RcvSkip, shm
  <2>2. DOMAIN sem' = Sems /\ sem'[2] = sem[2]
    BY <1>0, <1>4 DEF Receiver, RcvWhile, RcvLook, RcvRead, RcvSeen, RcvSkip,
       Sub, Semop, Sems
  <2> QED
    BY <2>1, <2>2, AskIdle
<1> QED
  BY <1>1, <1>2, <1>3, <1>4 DEF UserActs, MainRuns

(* No semaphore of the writers is lost or freed twice, for any number of   *)
(* clients: a request waits for other clients only, and a text for the end *)
(* of the text before (client.c 274-288, server.c 206-231).                *)
THEOREM SemaphoresAlwaysKept == Spec => []SemaphoresKept
<1>1. Init => OneAsks
  BY DEF Init, OneAsks, Asks, Sems
<1>2. OneAsks /\ [Next]_vars => OneAsks'
  <2> SUFFICES ASSUME OneAsks, [Next]_vars PROVE OneAsks'
    OBVIOUS
  <2>1. CASE UNCHANGED vars
    <3>1. UNCHANGED <<sem, removed, mainPc>>
      BY <2>1 DEF vars, shm, client
    <3> QED
      BY <3>1 DEF OneAsks, Asks
  <2> QED
    BY <2>1, AskServer, AskClient DEF Next
<1>3. TextInv /\ [Next]_vars => TextInv'
  BY TextStep
<1>4. TextInv /\ OneAsks => SemaphoresKept
  <2> SUFFICES ASSUME OneHolder, OneAsks, ~removed PROVE SemaphoresKept
    BY DEF TextInv, SemaphoresKept
  <2>1. sem[4] = 0 \/ sem[4] = 1
    BY DEF OneHolder
  <2>2. memPc # "crashed" =>
           sem[4] = IF MemHolds \/ MsgHolds \/ SomeClient THEN 0 ELSE 1
    BY <2>1 DEF OneHolder
  <2> QED
    BY <2>2 DEF OneAsks, SemaphoresKept
<1> QED
  BY <1>1, <1>2, <1>3, <1>4, TextInit, PTL DEF Spec

-----------------------------------------------------------------------------
(* ReadsSomething.  The messages and tables that the server copies from.   *)
Copies ==
    /\ DOMAIN sem = Sems /\ DOMAIN rcvPc = Clients
    /\ typed \in [Clients -> Nat]
    /\ request.text \in Message \cup {NoMsg}
    /\ memMsg \in Message \cup {NoMsg} /\ msgMsg \in Message \cup {NoMsg}
    /\ members \in Seq(Entry(Clients)) /\ messages \in Seq(Message)

(* What is written is a text: a request that was made, a member that has   *)
(* joined or a line that was kept.                                         *)
Texts ==
    /\ request.text = NoMsg => request.mtype = 0 /\ msgPc # "take"
    /\ memPc \in {"share", "replay", "again", "cast", "text", "loop"} =>
           memMsg # NoMsg
    /\ msgPc \in {"cast", "text"} => msgMsg # NoMsg

(* While there is no text nobody has leave to read one, and no thread of   *)
(* the server is behind the place where it writes one.                     *)
NoText ==
    /\ sem[3] = 0 /\ ~removed
    /\ memPc \notin {"again", "loop", "reset", "flag", "done"}
    /\ msgPc # "loop"
    /\ \A c \in Clients : rcvPc[c] # "read"

ReadInv == Copies /\ Texts /\ (text = NoMsg => NoText)

(* A message is never the empty text.                                     *)
LEMMA MessageIsSome == \A m \in Message : m # NoMsg
<1> SUFFICES ASSUME NEW m \in Message, m = NoMsg PROVE FALSE
  OBVIOUS
<1>1. m.kind # "none" /\ NoMsg.kind = "none"
  BY DEF Message, NoMsg
<1> QED
  BY <1>1

(* What the clients write is a message.                                    *)
LEMMA TextIsMessage ==
    ASSUME NEW c \in Clients, NEW n \in Nat
    PROVE  /\ Text("join", c, n) \in Message /\ Text("leave", c, n) \in Message
           /\ Text("line", c, n) \in Message /\ Text("quit", c, n) \in Message
           /\ Text("exit", c, n) \in Message
  BY DEF Text, Message

(* One mark changes, no entry comes or goes.                               *)
LEMMA SetOfflineKeeps ==
    ASSUME NEW table \in Seq(Entry(Clients)), NEW id
    PROVE  SetOffline(table, id) \in Seq(Entry(Clients))
<1> DEFINE new == [table EXCEPT ![DataFind(table, id)].online = FALSE]
<1>1. table \in [1..Len(table) -> Entry(Clients)]
  OBVIOUS
<1>2. new \in [1..Len(table) -> Entry(Clients)]
  BY <1>1 DEF Entry
<1>3. new \in Seq(Entry(Clients))
  BY <1>2, SeqDef
<1> QED
  BY <1>3 DEF SetOffline

(* The table and the history only grow by what is added.                   *)
LEMMA DataAddKeeps ==
    ASSUME NEW S, NEW table \in Seq(S), NEW entry \in S
    PROVE  DataAdd(table, entry) \in Seq(S)
  BY AppendProperties DEF DataAdd

(* Whatever of the history is sent to the newcomer is a text.              *)
LEMMA HistoryIsMessage ==
    ASSUME ReadInv, NEW i \in 1..(Len(members) + Len(messages))
    PROVE  History(i) \in Message
<1>1. members \in Seq(Entry(Clients)) /\ messages \in Seq(Message)
  BY DEF ReadInv, Copies
<1>2. Len(members) \in Nat /\ Len(messages) \in Nat
  BY <1>1, LenProperties
<1>3. CASE i <= Len(members)
  <2>1. i \in 1..Len(members)
    BY <1>2, <1>3
  <2>2. members[i].id \in Clients
    <3>1. members[i] \in Entry(Clients)
      BY <1>1, <2>1, ElementOfSeq
    <3> QED
      BY <3>1 DEF Entry
  <2> QED
    BY <1>3, <2>2, TextIsMessage DEF History
<1>4. CASE ~(i <= Len(members))
  <2>1. i - Len(members) \in 1..Len(messages)
    BY <1>2, <1>4
  <2> QED
    BY <1>1, <1>4, <2>1, ElementOfSeq DEF History
<1> QED
  BY <1>3, <1>4

(* At first there is no text and nobody has leave.                         *)
LEMMA ReadInit == Init => ReadInv
<1>1. <<>> \in Seq(Entry(Clients)) /\ <<>> \in Seq(Message)
  OBVIOUS
<1> QED
  BY <1>1 DEF Init, ReadInv, Copies, Texts, NoText, Sems

(* A step that leaves alone what the invariant speaks of.                  *)
LEMMA ReadIdle ==
    ASSUME ReadInv, UNCHANGED vars
    PROVE  ReadInv'
  BY DEF ReadInv, Copies, Texts, NoText, vars, shm, server, memVars, msgVars,
     client

(* The members thread.                                                     *)
LEMMA ReadMembers == ASSUME ReadInv, MembersHandler PROVE ReadInv'
<1> USE DEF ReadInv, Texts, NoText
<1>1. CASE MemWait
  <2>1. DOMAIN sem' = Sems /\ sem'[3] = sem[3]
    BY <1>1 DEF MemWait, Sub, Semop, Sems, Copies
  <2> QED
    BY <1>1, <2>1 DEF MemWait, shm, server, msgVars, client, Copies
<1>2. CASE MemTake
  <2>1. /\ UNCHANGED <<sem, shm, messages, msgMsg, client>>
        /\ memMsg' = request.text
        /\ \/ /\ request.text.kind \in {"leave", "join"}
              /\ memPc' \in {"cast", "share"} /\ msgPc' = msgPc
           \/ memPc' = "crashed" /\ msgPc' = "crashed"
        /\ \/ members' = members
           \/ members' = SetOffline(members, request.text.from)
    BY <1>2 DEF MemTake, ServerFaults
  <2>2. Copies'
    BY <2>1, SetOfflineKeeps DEF Copies, shm, client
  <2>3. request.text.kind \in {"leave", "join"} => request.text # NoMsg
    BY DEF NoMsg
  <2> QED
    BY <2>1, <2>2, <2>3 DEF shm, client
<1>3. CASE MemShare
  <2>1. DOMAIN sem' = Sems /\ sem'[3] = sem[3]
    BY <1>3 DEF MemShare, Sub, Semop, Sems, Copies
  <2> QED
    BY <1>3, <2>1 DEF MemShare, server, msgVars, client, Copies
<1>4. CASE MemReplay
  <2>1. CASE UNCHANGED text /\ UNCHANGED memPc
    BY <1>4, <2>1 DEF MemReplay, server, msgVars, client, Copies
  <2>2. CASE text' = History(memI) /\ memPc' = "again"
    <3>1. text' # NoMsg
      BY <1>4, <2>2, HistoryIsMessage, MessageIsSome DEF MemReplay
    <3> QED
      BY <1>4, <2>2, <3>1 DEF MemReplay, server, msgVars, client, Copies
  <2> QED
    BY <1>4, <2>1, <2>2 DEF MemReplay
<1>5. CASE MemAgain
  <2>1. DOMAIN sem' = Sems
    BY <1>5 DEF MemAgain, LetRead, Semop, Sems, Copies
  <2>2. text' = text /\ text # NoMsg
    BY <1>5 DEF MemAgain, shm
  <2> QED
    BY <1>5, <2>1, <2>2
    DEF MemAgain, shm, server, memVars, msgVars, client, Copies
<1>6. CASE MemNext
  BY <1>6 DEF MemNext, server, msgVars, client, Copies
<1>7. CASE MemAdd
  <2>1. DOMAIN sem' = Sems /\ sem'[3] = sem[3]
    BY <1>7 DEF MemAdd, Post, Semop, Sems, Copies
  <2>2. memMsg.from \in Clients
    BY <1>7 DEF MemAdd, Copies, Message
  <2>3. members' \in Seq(Entry(Clients))
    <3>1. [id |-> memMsg.from, online |-> TRUE] \in Entry(Clients)
      BY <2>2 DEF Entry
    <3> QED
      BY <1>7, <3>1, DataAddKeeps DEF MemAdd, Copies
  <2> QED
    BY <1>7, <2>1, <2>3 DEF MemAdd, shm, msgVars, client, Copies
<1>8. CASE MemCast
  <2>1. DOMAIN sem' = Sems /\ sem'[3] = sem[3]
    BY <1>8 DEF MemCast, Sub, Semop, Sems, Copies
  <2> QED
    BY <1>8, <2>1 DEF MemCast, server, msgVars, client, Copies
<1>9. CASE MemText
  BY <1>9 DEF MemText, server, msgVars, client, Copies
<1>10. CASE MemLoop
  <2>1. DOMAIN sem' = Sems
    BY <1>10 DEF MemLoop, LetRead, Semop, Sems, Copies
  <2>2. text' = text /\ text # NoMsg
    BY <1>10 DEF MemLoop, shm
  <2> QED
    BY <1>10, <2>1, <2>2
    DEF MemLoop, shm, server, memVars, msgVars, client, Copies
<1>11. CASE MemCheck
  <2>1. DOMAIN sem' = Sems /\ text' = text /\ text # NoMsg
    BY <1>11 DEF MemCheck, Post, Semop, Sems, Copies, shm
  <2> QED
    BY <1>11, <2>1 DEF MemCheck, shm, server, msgVars, client, Copies
<1>12. CASE MemReset
  <2>1. <<>> \in Seq(Entry(Clients))
    OBVIOUS
  <2> QED
    BY <1>12, <2>1 DEF MemReset, shm, msgVars, client, Copies
<1>13. CASE MemFlag
  BY <1>13 DEF MemFlag, shm, msgVars, client, Copies
<1> QED
  BY <1>1, <1>2, <1>3, <1>4, <1>5, <1>6, <1>7, <1>8, <1>9, <1>10, <1>11,
     <1>12, <1>13 DEF MembersHandler

(* The message thread and the end of the server.                           *)
LEMMA ReadMessages ==
    ASSUME ReadInv, MessageHandler \/ ServerEnd PROVE ReadInv'
<1> USE DEF ReadInv, Texts, NoText
<1>1. CASE MsgWhile
  BY <1>1 DEF MsgWhile, shm, server, memVars, client, Copies
<1>2. CASE MsgWait
  <2>1. DOMAIN sem' = Sems /\ sem'[3] = sem[3]
    BY <1>2 DEF MsgWait, Sub, Semop, Sems, Copies
  <2> QED
    BY <1>2, <2>1 DEF MsgWait, shm, server, memVars, client, Copies
<1>3. CASE MsgTake
  BY <1>3 DEF MsgTake, shm, server, memVars, client, Copies
<1>4. CASE MsgQuit
  BY <1>4 DEF MsgQuit, shm, server, memVars, client, Copies
<1>5. CASE MsgCast
  <2>1. DOMAIN sem' = Sems /\ sem'[3] = sem[3]
    BY <1>5 DEF MsgCast, Sub, Semop, Sems, Copies
  <2> QED
    BY <1>5, <2>1 DEF MsgCast, server, memVars, client, Copies
<1>6. CASE MsgText
  BY <1>6 DEF MsgText, server, memVars, client, Copies
<1>7. CASE MsgLoop
  <2>1. DOMAIN sem' = Sems /\ text' = text /\ text # NoMsg
    BY <1>7 DEF MsgLoop, LetRead, Semop, Sems, Copies, shm
  <2> QED
    BY <1>7, <2>1 DEF MsgLoop, shm, server, memVars, msgVars, client, Copies
<1>8. CASE MsgAdd
  <2>1. DOMAIN sem' = Sems /\ text' = text /\ text # NoMsg
    BY <1>8 DEF MsgAdd, Post, Semop, Sems, Copies, shm
  <2>2. CASE msgMsg.kind = "line"
    <3>1. msgMsg \in Message
      BY <2>2 DEF Copies, NoMsg
    <3>2. messages' \in Seq(Message)
      BY <1>8, <2>2, <3>1, DataAddKeeps DEF MsgAdd, Copies
    <3> QED
      BY <1>8, <2>1, <2>2, <3>2 DEF MsgAdd, shm, client, Copies
  <2>3. CASE msgMsg.kind # "line"
    BY <1>8, <2>1, <2>3 DEF MsgAdd, ServerFaults, shm, client, Copies
  <2> QED
    BY <2>2, <2>3
<1>9. CASE ServerEnd
  BY <1>9 DEF ServerEnd, server, memVars, msgVars, client, Copies
<1> QED
  BY <1>1, <1>2, <1>3, <1>4, <1>5, <1>6, <1>7, <1>8, <1>9 DEF MessageHandler

(* Both threads of a client.                                               *)
LEMMA ReadClient ==
    ASSUME ReadInv, NEW c \in Clients,
           UserActs(c) \/ MainRuns(c) \/ Receiver(c)
    PROVE  ReadInv'
<1> USE DEF ReadInv, Texts, NoText
<1>1. CASE Boot(c) \/ SendLine(c) \/ SendLeave(c) \/ SendQuit(c)
  <2>1. PICK mtype \in 1..2, message \in Message :
            Ask(c, mtype, message) /\ UNCHANGED typed
    BY <1>1, TextIsMessage
    DEF Boot, SendLine, SendLeave, SendQuit, Copies
  <2>2. DOMAIN sem' = Sems /\ sem'[3] = sem[3]
    <3>1. mtype - 1 \in {0, 1}
      BY <2>1
    <3> DEFINE slot == mtype - 1
    <3> HIDE DEF slot
    <3>2. \/ sem' = sem
          \/ sem' = [sem EXCEPT ![2] = sem[2] - 1, ![slot] = sem[slot] + 1]
      BY <2>1 DEF Ask, Semop, slot
    <3>3. slot \in {0, 1}
      BY <3>1 DEF slot
    <3> QED
      BY <3>2, <3>3 DEF Sems, Copies
  <2>3. request' = [mtype |-> mtype, text |-> message] /\ message # NoMsg
    BY <2>1, MessageIsSome DEF Ask
  <2> QED
    BY <2>1, <2>2, <2>3 DEF Ask, server, memVars, msgVars, Copies
<1>2. CASE Free(c)
  <2>1. DOMAIN sem' = Sems /\ sem'[3] = sem[3]
    BY <1>2 DEF Free, Post, Semop, Sems, Copies
  <2>2. /\ DOMAIN rcvPc' = Clients
        /\ \A d \in Clients : rcvPc'[d] = "read" => rcvPc[d] = "read"
    BY <1>2 DEF Free, Copies
  <2> QED
    BY <1>2, <2>1, <2>2 DEF Free, shm, server, memVars, msgVars, Copies
<1>3. CASE TypeLine(c) \/ TypeExit(c) \/ JoinThreads(c) \/ JoinFaults(c)
  <2>1. typed' \in [Clients -> Nat]
    BY <1>3 DEF TypeLine, TypeExit, JoinThreads, JoinFaults, Copies
  <2> QED
    BY <1>3, <2>1 DEF TypeLine, TypeExit, JoinThreads, JoinFaults, shm,
       server, memVars, msgVars, Copies
<1>4. CASE SendExit(c)
  <2>1. DOMAIN sem' = Sems
    BY <1>4 DEF SendExit, Semop, Sems, Copies
  <2>2. text' # NoMsg
    BY <1>4, TextIsMessage, MessageIsSome DEF SendExit
  <2> QED
    BY <1>4, <2>1, <2>2 DEF SendExit, server, memVars, msgVars, Copies
<1>5. CASE FreeExit(c)
  <2>1. DOMAIN sem' = Sems /\ sem'[3] = sem[3]
    BY <1>5 DEF FreeExit, Post, Semop, Sems, Copies
  <2> QED
    BY <1>5, <2>1 DEF FreeExit, shm, server, memVars, msgVars, Copies
<1>6. CASE RcvLook(c) \/ RcvSeen(c)
  <2>1. DOMAIN sem' = Sems /\ (removed \/ sem[3] > 0)
    BY <1>6 DEF RcvLook, RcvSeen, Sub, May, Semop, Sems, Copies
  <2>2. text' = text /\ text # NoMsg
    BY <1>6, <2>1 DEF RcvLook, RcvSeen, shm
  <2>3. DOMAIN rcvPc' = Clients
    BY <1>6 DEF RcvLook, RcvSeen, RcvGoto, Copies
  <2> QED
    BY <1>6, <2>1, <2>2, <2>3 DEF RcvLook, RcvSeen, shm, server, memVars,
       msgVars, Copies
<1>7. CASE RcvWhile(c) \/ RcvRead(c) \/ RcvSkip(c)
  <2>1. /\ DOMAIN rcvPc' = Clients
        /\ \A d \in Clients : rcvPc'[d] = "read" => rcvPc[d] = "read"
    BY <1>7 DEF RcvWhile, RcvRead, RcvSkip, RcvGoto, Copies
  <2> QED
    BY <1>7, <2>1 DEF RcvWhile, RcvRead, RcvSkip, shm, server, memVars,
       msgVars, Copies
<1> QED
  BY <1>1, <1>2, <1>3, <1>4, <1>5, <1>6, <1>7 DEF UserActs, MainRuns, Receiver

(* No client copies shm[1] before anybody has written there, for every     *)
(* number of clients and whatever a client that leaves or a server that    *)
(* ends does to the semaphores.                                            *)
THEOREM AlwaysReadsSomething == Spec => []ReadsSomething
<1>1. ReadInv /\ [Next]_vars => ReadInv'
  <2> SUFFICES ASSUME ReadInv, [Next]_vars PROVE ReadInv'
    OBVIOUS
  <2> QED
    BY ReadIdle, ReadMembers, ReadMessages, ReadClient DEF Next
<1>2. ReadInv => ReadsSomething
  BY DEF ReadInv, NoText, ReadsSomething
<1> QED
  BY <1>1, <1>2, ReadInit, PTL DEF Spec
=============================================================================
