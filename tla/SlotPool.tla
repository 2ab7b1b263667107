------------------------------ MODULE SlotPool ------------------------------
(***************************************************************************)
(* task16_cs_models/parallel_buff: main hands each request to one of the   *)
(* handler threads through a slot of its own, data[s].  data[s].is_ready   *)
(* is 0 when the slot is free, 1 when it holds a request and -1 when the   *)
(* thread is to end; main and the thread read and write it without a lock. *)
(***************************************************************************)
EXTENDS Integers, TimeNet

CONSTANT Last   \* number of slots, and the last of them; 3 in the code

ASSUME SlotAssumption == Last \in Nat /\ Last >= 2

Slots == 1..Last

VARIABLES
    slotPc,     \* main: "scan", "recv", "address", "ready", "kill", "sleep"
    scan,       \* the slot main looks at
    free,       \* free_thread
    request,    \* the client received last
    isReady,    \* isReady[s]: data[s].is_ready
    address,    \* address[s]: data[s].client
    handler     \* handler[s]: "poll", "test", "send", "clear" or "gone"

slotVars == <<slotPc, scan, free, request, isReady, address, handler>>

NoClient == Kill

SlotInit ==
    /\ slotPc = "scan" /\ scan = 1 /\ free = 1 /\ request = NoClient
    /\ isReady = [s \in Slots |-> 0]
    /\ address = [s \in Slots |-> NoClient]
    /\ handler = [s \in Slots |-> "poll"]

SlotTypeOK ==
    /\ slotPc \in {"scan", "recv", "address", "ready", "kill", "sleep"}
    /\ scan \in 0..Last /\ free \in Slots
    /\ request \in Clients \cup {NoClient}
    /\ isReady \in [Slots -> {-1, 0, 1}]
    /\ address \in [Slots -> Clients \cup {NoClient}]
    /\ handler \in [Slots -> {"poll", "test", "send", "clear", "gone"}]

(* Fault: the slot that comes next is taken without a look at is_ready.    *)
Scan_RoundRobin ==
    /\ slotPc = "scan"
    /\ free' = (free % Last) + 1 /\ slotPc' = "recv"
    /\ UNCHANGED <<net, scan, request, isReady, address, handler>>

(* The for loop over the slots.  After the last one "i = 0" and the i++ of *)
(* the loop go back to the second.                                         *)
Scan ==
    /\ slotPc = "scan"
    /\ IF isReady[scan] = 0
       THEN free' = scan /\ slotPc' = "recv" /\ UNCHANGED scan
       ELSE /\ scan' = IF scan = Last THEN 2 ELSE scan + 1
            /\ UNCHANGED <<free, slotPc>>
    /\ UNCHANGED <<net, request, isReady, address, handler>>

SlotReceive(c) ==
    /\ slotPc = "recv" /\ Take(c)
    /\ request' = c
    /\ slotPc' = "address"
    /\ UNCHANGED <<scan, free, isReady, address, handler>>

SlotKilled ==
    /\ slotPc = "recv" /\ Take(Kill)
    /\ slotPc' = "kill" /\ scan' = Last
    /\ UNCHANGED <<free, request, isReady, address, handler>>

SetAddress ==
    /\ slotPc = "address"
    /\ address' = [address EXCEPT ![free] = request]
    /\ slotPc' = "ready"
    /\ UNCHANGED <<net, scan, free, request, isReady, handler>>

SetReady ==
    /\ slotPc = "ready"
    /\ isReady' = [isReady EXCEPT ![free] = 1]
    /\ slotPc' = "scan" /\ scan' = 1
    /\ UNCHANGED <<net, free, request, address, handler>>

(* data[0].is_ready = data[1].is_ready = data[2].is_ready = -1: the last   *)
(* slot is written first.                                                  *)
KillSlot ==
    /\ slotPc = "kill" /\ scan \in Slots
    /\ isReady' = [isReady EXCEPT ![scan] = -1]
    /\ scan' = scan - 1
    /\ UNCHANGED <<net, slotPc, free, request, address, handler>>

KillDone ==
    /\ slotPc = "kill" /\ scan = 0
    /\ slotPc' = "sleep"
    /\ UNCHANGED <<net, scan, free, request, isReady, address, handler>>

Idle(s) == handler[s] = "gone" \/ (handler[s] = "poll" /\ isReady[s] = 0)

SlotExit ==
    /\ slotPc = "sleep"
    /\ Patient => \A s \in Slots : Idle(s)
    /\ Stop("exited")
    /\ UNCHANGED slotVars

HandlerAt(s, from, to) ==
    /\ handler[s] = from
    /\ handler' = [handler EXCEPT ![s] = to]

(* The two reads of is_ready at the head of the loop of a handler.         *)
Poll(s) ==
    /\ isReady[s] # 0
    /\ HandlerAt(s, "poll", "test")
    /\ UNCHANGED <<net, slotPc, scan, free, request, isReady, address>>

Test(s) ==
    /\ HandlerAt(s, "test", IF isReady[s] = -1 THEN "gone" ELSE "send")
    /\ UNCHANGED <<net, slotPc, scan, free, request, isReady, address>>

(* Fault: the address is forgotten, the answer goes to the latest client.  *)
SlotSend_ToLatest(s) ==
    /\ HandlerAt(s, "send", "clear")
    /\ Answer(request)
    /\ UNCHANGED <<slotPc, scan, free, request, isReady, address>>

SlotSend(s) ==
    /\ HandlerAt(s, "send", "clear")
    /\ Answer(address[s])
    /\ UNCHANGED <<slotPc, scan, free, request, isReady, address>>

SlotSendFails(s) ==
    /\ handler[s] = "send" /\ SendsFail
    /\ Stop("failed") /\ UNCHANGED slotVars

(* Fault: the handler returns after one answer.                            *)
Clear_Returns(s) ==
    /\ HandlerAt(s, "clear", "gone")
    /\ isReady' = [isReady EXCEPT ![s] = 0]
    /\ UNCHANGED <<net, slotPc, scan, free, request, address>>

(* is_ready = 0, which may overwrite the -1 of a kill.                     *)
Clear(s) ==
    /\ HandlerAt(s, "clear", "poll")
    /\ isReady' = [isReady EXCEPT ![s] = 0]
    /\ UNCHANGED <<net, slotPc, scan, free, request, address>>

SlotMain ==
    \/ Scan \/ SetAddress \/ SetReady
    \/ SlotKilled \/ KillSlot \/ KillDone \/ SlotExit
    \/ \E c \in Clients : SlotReceive(c)

SlotHandler(s) ==
    Poll(s) \/ Test(s) \/ SlotSend(s) \/ SlotSendFails(s) \/ Clear(s)

SlotNext == status = "up" /\ (SlotMain \/ \E s \in Slots : SlotHandler(s))

-----------------------------------------------------------------------------
(* Main and a handler never use a slot at the same time: while main writes *)
(* the address into the free slot its thread only polls, and a thread that *)
(* answers finds its slot still marked 1 or, after a kill, -1 (server.c    *)
(* 58-63, 86-87, 101-121).                                                 *)
HandOver ==
    /\ slotPc \in {"recv", "address", "ready"} =>
            isReady[free] = 0 /\ handler[free] = "poll"
    /\ \A s \in Slots : handler[s] \in {"test", "send", "clear"} =>
            \/ isReady[s] = 1
            \/ isReady[s] = -1 /\ slotPc \in {"kill", "sleep"}

(* No request is forgotten before a kill: a client received and not yet    *)
(* answered is the one main is handing over or is in one slot only.        *)
Pending(s) == isReady[s] = 1 /\ handler[s] # "clear"

NoneForgotten ==
    slotPc \notin {"kill", "sleep"} =>
        \A c \in accepted \ answered :
            \/ slotPc \in {"address", "ready"} /\ request = c
            \/ \E s \in Slots : Pending(s) /\ address[s] = c
=============================================================================
