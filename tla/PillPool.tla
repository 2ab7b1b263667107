------------------------------ MODULE PillPool ------------------------------
(***************************************************************************)
(* task16_cs_models/producer_consumer: main posts each request on a System *)
(* V queue from which the handler threads take them.  To end the handlers  *)
(* thread_killer posts one pill (is_ready = -1) per handler.               *)
(***************************************************************************)
EXTENDS Integers, Sequences, FiniteSets, TimeNet

CONSTANTS
    Handlers,   \* the handler threads; three in the code
    QueueCap,   \* how many messages the queue holds
    Pill        \* a message with is_ready = -1

Main    == "main"
PerKill == Cardinality(Handlers)    \* thread_killer posts three

ASSUME PillAssumption ==
    /\ Pill \notin Clients /\ QueueCap \in Nat \ {0}
    /\ IsFiniteSet(Handlers) /\ Handlers # {} /\ Main \notin Handlers

VARIABLES
    pillPc,     \* main: "recv", "post", "pills", "sleep", "fail"
    posting,    \* the client received last
    mq,         \* the System V queue
    pillsLeft,  \* pillsLeft[t]: how many pills thread t has still to post
    sockOpen,   \* whether the socket is open
    worker,     \* worker[h]: "recv", "send", "pills" or "gone"
    held        \* held[h]: the message handler h received last

pillVars == <<pillPc, posting, mq, pillsLeft, sockOpen, worker, held>>

PillInit ==
    /\ pillPc = "recv" /\ posting = Pill
    /\ mq = <<>>
    /\ pillsLeft = [t \in Handlers \cup {Main} |-> 0]
    /\ sockOpen = TRUE
    /\ worker = [h \in Handlers |-> "recv"]
    /\ held = [h \in Handlers |-> Pill]

PillTypeOK ==
    /\ pillPc \in {"recv", "post", "pills", "sleep", "fail"}
    /\ posting \in Clients \cup {Pill}
    /\ mq \in Seq(Clients \cup {Pill})
    /\ pillsLeft \in [Handlers \cup {Main} -> 0..PerKill]
    /\ sockOpen \in BOOLEAN
    /\ worker \in [Handlers -> {"recv", "send", "pills", "gone"}]
    /\ held \in [Handlers -> Clients \cup {Pill}]

(* Fault: the queue is read from the wrong end.                            *)
Post_InFront(m) == Len(mq) < QueueCap /\ mq' = <<m>> \o mq

(* msgsnd: blocks while the queue is full.                                 *)
Post(m) == Len(mq) < QueueCap /\ mq' = Append(mq, m)

PillReceive(c) ==
    /\ pillPc = "recv" /\ Take(c)
    /\ posting' = c /\ pillPc' = "post"
    /\ UNCHANGED <<mq, pillsLeft, sockOpen, worker, held>>

PostRequest ==
    /\ pillPc = "post"
    /\ Post(posting)
    /\ pillPc' = "recv"
    /\ UNCHANGED <<net, posting, pillsLeft, sockOpen, worker, held>>

(* A kill; or recvfrom fails because a handler has closed the socket.      *)
PillKilled ==
    /\ pillPc = "recv" /\ Take(Kill)
    /\ pillPc' = "pills"
    /\ pillsLeft' = [pillsLeft EXCEPT ![Main] = PerKill]
    /\ UNCHANGED <<posting, mq, sockOpen, worker, held>>

PillReceiveFails ==
    /\ pillPc = "recv" /\ ~sockOpen
    /\ pillPc' = "fail"
    /\ pillsLeft' = [pillsLeft EXCEPT ![Main] = PerKill]
    /\ UNCHANGED <<net, posting, mq, sockOpen, worker, held>>

(* One msgsnd of thread_killer, called by thread t.                        *)
PostPill(t) ==
    /\ pillsLeft[t] > 0
    /\ Post(Pill)
    /\ pillsLeft' = [pillsLeft EXCEPT ![t] = @ - 1]
    /\ UNCHANGED <<net, pillPc, posting, sockOpen, worker, held>>

(* Handler h has something to do, and nothing keeps it from doing it: it   *)
(* is not in its own sleep (worker "pills", none left to post) and does    *)
(* not wait for room in the queue.                                         *)
Working(h) ==
    \/ worker[h] = "recv" /\ mq # <<>>
    \/ worker[h] = "send"
    \/ worker[h] = "pills" /\ pillsLeft[h] > 0 /\ Len(mq) < QueueCap

(* The sleep, the removal of the queue and the end of the process.  Main   *)
(* does not wait for a handler that sleeps as well after a failed sendto.  *)
(* A handler that still needs the queue fails and may exit first.          *)
PillExit(how) ==
    /\ pillPc = "pills" /\ pillsLeft[Main] = 0
    /\ Patient => \A h \in Handlers : ~Working(h)
    /\ how = "failed" => ~Patient /\ \E h \in Handlers : worker[h] # "gone"
    /\ Stop(how)
    /\ UNCHANGED pillVars

PillMainFails ==
    /\ pillPc = "fail" /\ pillsLeft[Main] = 0
    /\ Stop("failed") /\ UNCHANGED pillVars

(* Fault: the message stays in the queue.                                  *)
WorkerReceive_Peeks(h) ==
    /\ worker[h] = "recv" /\ mq # <<>>
    /\ held' = [held EXCEPT ![h] = Head(mq)]
    /\ worker' = [worker EXCEPT ![h] = IF Head(mq) = Pill THEN "gone" ELSE "send"]
    /\ UNCHANGED <<net, pillPc, posting, mq, pillsLeft, sockOpen>>

(* msgrcv of handler h.                                                    *)
WorkerReceive(h) ==
    /\ worker[h] = "recv" /\ mq # <<>>
    /\ held' = [held EXCEPT ![h] = Head(mq)]
    /\ mq' = Tail(mq)
    /\ worker' = [worker EXCEPT ![h] = IF Head(mq) = Pill THEN "gone" ELSE "send"]
    /\ UNCHANGED <<net, pillPc, posting, pillsLeft, sockOpen>>

WorkerSend(h) ==
    /\ worker[h] = "send" /\ sockOpen
    /\ Answer(held[h])
    /\ worker' = [worker EXCEPT ![h] = "recv"]
    /\ UNCHANGED <<pillPc, posting, mq, pillsLeft, sockOpen, held>>

(* A sendto that fails closes the socket and ends the whole server.        *)
WorkerSendFails(h) ==
    /\ worker[h] = "send" /\ (SendsFail \/ ~sockOpen)
    /\ sockOpen' = FALSE
    /\ worker' = [worker EXCEPT ![h] = "pills"]
    /\ pillsLeft' = [pillsLeft EXCEPT ![h] = PerKill]
    /\ UNCHANGED <<net, pillPc, posting, mq, held>>

(* The sleep of the handler, which began before or after that of main, the *)
(* removal of the queue and exit.                                          *)
WorkerExits(h) ==
    /\ worker[h] = "pills" /\ pillsLeft[h] = 0
    /\ Stop("failed") /\ UNCHANGED pillVars

PillMain ==
    \/ PostRequest \/ PillKilled \/ PillReceiveFails
    \/ PostPill(Main) \/ PillMainFails
    \/ \E how \in {"exited", "failed"} : PillExit(how)
    \/ \E c \in Clients : PillReceive(c)

Worker(h) ==
    \/ WorkerReceive(h) \/ WorkerSend(h) \/ WorkerSendFails(h)
    \/ PostPill(h) \/ WorkerExits(h)

PillNext == status = "up" /\ (PillMain \/ \E h \in Handlers : Worker(h))

-----------------------------------------------------------------------------
Pills == {i \in DOMAIN mq : mq[i] = Pill}
Gone  == {h \in Handlers : worker[h] = "gone"}

(* Every handler gets its pill and every pill its handler: as long as no   *)
(* sendto has failed, the handlers that are gone, the pills in the queue   *)
(* and those not yet posted make up the pills of one thread_killer.        *)
EveryPillItsHandler ==
    sockOpen =>
        Cardinality(Gone) + Cardinality(Pills) + pillsLeft[Main] =
            IF pillPc = "pills" THEN PerKill ELSE 0
=============================================================================
