------------------------------ MODULE Exchanges -------------------------------
(***************************************************************************)
(* Four pairs of programs that exchange two texts: over shared memory with *)
(* a semaphore (task14/POSIX, task14/Systev_V) and over a message queue    *)
(* (task13/POSIX, task13/SystemV).  The server writes, three of the four   *)
(* sleep for ten seconds, and it reads; the client reads and writes.  What *)
(* they use lies in the kernel and outlives a server that is killed.       *)
(***************************************************************************)
EXTENDS Naturals

CONSTANTS
    Pairs,      \* which of the four may be run
    MaxKills    \* bound: how often the server is killed

ASSUME ExchangesAssumption ==
    /\ Pairs \subseteq {"posix shm", "sysv shm", "posix mq", "sysv mq"}
    /\ MaxKills \in Nat

VARIABLES
    pair,       \* the one that is run
    patient,    \* whether the user runs the client while the server sleeps
                \* or waits, lets it end, and kills the server at no such time
    object,     \* whether there is the memory or the queue
    text, sem,  \* the shared memory and its semaphore
    mq,         \* how many of each text are in the message queue
    server, client,     \* where they stand
    reads,      \* what each has read
    kills

exchangeVars ==
    <<pair, patient, object, text, sem, mq, server, client, reads, kills>>

Hello == "hello"    \* the text of the server
Hi    == "hi"       \* the text of the client
Unset == "unset"

Sysv   == pair \in {"sysv shm", "sysv mq"}
Queued == pair \in {"posix mq", "sysv mq"}

NothingRead == [server |-> Unset, client |-> Unset]

ExchangeInit ==
    /\ pair \in Pairs /\ patient \in BOOLEAN
    /\ object = FALSE /\ text = Unset /\ sem = 0
    /\ mq = [t \in {Hello, Hi} |-> 0]
    /\ server = "off" /\ client = "off"
    /\ reads = NothingRead /\ kills = 0

Goes(from, to)   == server = from /\ server' = to
Follows(from, to) == client = from /\ client' = to

SemWait == sem > 0 /\ sem' = sem - 1
SemPost == sem' = sem + 1

Enqueue(t) == mq' = [mq EXCEPT ![t] = @ + 1]

(* Fault: the message type 0 instead of the other's, that is, any.         *)
Receivable_AnyType(t, other) == mq[t] > 0

(* A POSIX queue gives out the highest priority first, that of the server, *)
(* to whoever asks; a System V queue the type that is asked for.           *)
Receivable(t, other) ==
    mq[t] > 0 /\ (IF Sysv THEN t = other ELSE t = Hello \/ mq[Hello] = 0)

-----------------------------------------------------------------------------
(* The server.  The POSIX one gets the semaphore as it is, if there is one *)
(* already, and does not wait for it before it writes; the System V one    *)
(* sets it to 1 and waits.                                                 *)

ServerOpens ==
    /\ Goes("off", IF Queued THEN "send" ELSE IF Sysv THEN "lock" ELSE "write")
    /\ object' = TRUE
    /\ sem' = IF Sysv \/ ~object THEN 1 ELSE sem
    /\ UNCHANGED <<pair, patient, text, mq, client, reads, kills>>

ServerLocks ==
    /\ Goes("lock", "write") /\ SemWait
    /\ UNCHANGED <<pair, patient, object, text, mq, client, reads, kills>>

ServerWrites ==
    /\ Goes("write", "post") /\ text' = Hello
    /\ UNCHANGED <<pair, patient, object, sem, mq, client, reads, kills>>

ServerPosts ==
    /\ Goes("post", "sleep") /\ SemPost
    /\ UNCHANGED <<pair, patient, object, text, mq, client, reads, kills>>

ServerSends ==
    /\ Goes("send", IF Sysv THEN "receive" ELSE "sleep") /\ Enqueue(Hello)
    /\ UNCHANGED <<pair, patient, object, text, sem, client, reads, kills>>

Wakes ==
    /\ patient => client = "gone"
    /\ Goes("sleep", IF Queued THEN "receive" ELSE "again")
    /\ UNCHANGED <<pair, patient, object, text, sem, mq, client, reads, kills>>

ServerLocksAgain ==
    /\ Goes("again", "read") /\ SemWait
    /\ UNCHANGED <<pair, patient, object, text, mq, client, reads, kills>>

ServerReads ==
    /\ Goes("read", "remove")
    /\ reads' = [reads EXCEPT !.server = text]
    /\ IF Sysv THEN SemPost ELSE UNCHANGED sem
    /\ UNCHANGED <<pair, patient, object, text, mq, client, kills>>

ServerReceives(t) ==
    /\ Receivable(t, Hi)
    /\ Goes("receive", "remove")
    /\ reads' = [reads EXCEPT !.server = t]
    /\ mq' = [mq EXCEPT ![t] = @ - 1]
    /\ UNCHANGED <<pair, patient, object, text, sem, client, kills>>

Removes ==
    /\ Goes("remove", "gone") /\ object' = FALSE
    /\ UNCHANGED <<pair, patient, text, sem, mq, client, reads, kills>>

(* External: a signal.  The server may be started again, and the client.   *)
ServerKilled ==
    /\ server \notin {"off", "gone"} /\ kills < MaxKills
    /\ patient => client \in {"off", "gone"}
    /\ server' = "off" /\ kills' = kills + 1
    /\ client' = IF client = "gone" THEN "off" ELSE client
    /\ reads' = NothingRead
    /\ UNCHANGED <<pair, patient, object, text, sem, mq>>

-----------------------------------------------------------------------------
(* The client.  It ends when there is nothing to open.  What is removed    *)
(* stays with a POSIX client that has opened it; the calls of a System V   *)
(* client fail.                                                            *)

There == object \/ ~Sysv

ClientOpens ==
    /\ patient => server \in {"sleep", "receive"}
    /\ Follows("off", IF ~object THEN "gone"
                      ELSE IF Queued THEN "receive" ELSE "lock")
    /\ UNCHANGED <<pair, patient, object, text, sem, mq, server, reads, kills>>

ClientLocks ==
    /\ There /\ Follows("lock", "read") /\ SemWait
    /\ UNCHANGED <<pair, patient, object, text, mq, server, reads, kills>>

ClientReads ==
    /\ Follows("read", "write")
    /\ reads' = [reads EXCEPT !.client = text]
    /\ UNCHANGED <<pair, patient, object, text, sem, mq, server, kills>>

ClientWrites ==
    /\ Follows("write", "post") /\ text' = Hi
    /\ UNCHANGED <<pair, patient, object, sem, mq, server, reads, kills>>

ClientPosts ==
    /\ There /\ Follows("post", "gone") /\ SemPost
    /\ UNCHANGED <<pair, patient, object, text, mq, server, reads, kills>>

ClientReceives(t) ==
    /\ There /\ Receivable(t, Hello)
    /\ Follows("receive", "send")
    /\ reads' = [reads EXCEPT !.client = t]
    /\ mq' = [mq EXCEPT ![t] = @ - 1]
    /\ UNCHANGED <<pair, patient, object, text, sem, server, kills>>

ClientSends ==
    /\ There /\ Follows("send", "gone") /\ Enqueue(Hi)
    /\ UNCHANGED <<pair, patient, object, text, sem, server, reads, kills>>

ClientFails ==
    /\ ~There /\ client \in {"lock", "post", "receive", "send"}
    /\ client' = "gone"
    /\ UNCHANGED <<pair, patient, object, text, sem, mq, server, reads, kills>>

-----------------------------------------------------------------------------
ServerRuns ==
    \/ ServerOpens \/ ServerLocks \/ ServerWrites \/ ServerPosts \/ ServerSends
    \/ Wakes \/ ServerLocksAgain \/ ServerReads \/ Removes
    \/ \E t \in {Hello, Hi} : ServerReceives(t)

ClientRuns ==
    \/ ClientOpens \/ ClientLocks \/ ClientReads \/ ClientWrites \/ ClientPosts
    \/ ClientSends \/ ClientFails \/ \E t \in {Hello, Hi} : ClientReceives(t)

ExchangeNext == ServerRuns \/ ClientRuns \/ ServerKilled

-----------------------------------------------------------------------------
(* When both are done, each has read what the other wrote, under the       *)
(* conditions these exercises need.  In three of the pairs the user is     *)
(* patient and runs the client while the server sleeps, as a comment asks  *)
(* (task13/POSIX/simple_msg/server.c:21); in the fourth, the System V      *)
(* queue, each waits for a type of its own and the client may be run at    *)
(* any time.  A server killed before does no harm in shared memory,        *)
(* whatever text and semaphore it leaves; a queue must be a new one: its   *)
(* old texts would be read (task14/*/server.c, client.c).                  *)
EachReadsOther ==
    /\ server = "gone" /\ client = "gone"
    /\ patient \/ pair = "sysv mq"
    /\ Queued => kills = 0
    => reads = [server |-> Hi, client |-> Hello]
=============================================================================
