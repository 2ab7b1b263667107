-------------------------- MODULE ThreadPerRequest --------------------------
(***************************************************************************)
(* task16_cs_models/parallel: main starts a detached thread per request.   *)
(***************************************************************************)
EXTENDS TimeNet

VARIABLES
    tprPc,      \* main: "recv", "close" or "return"
    inFlight,   \* the clients whose thread has not yet sent the answer
    fdOpen      \* whether the socket is open

tprVars == <<tprPc, inFlight, fdOpen>>

TprInit == tprPc = "recv" /\ inFlight = {} /\ fdOpen = TRUE

TprTypeOK ==
    /\ tprPc \in {"recv", "close", "return"}
    /\ inFlight \subseteq Clients
    /\ fdOpen \in BOOLEAN

(* The address is copied to the heap, one block per thread.                *)
TprReceive(c) ==
    /\ tprPc = "recv" /\ Take(c)
    /\ inFlight' = inFlight \cup {c}
    /\ UNCHANGED <<tprPc, fdOpen>>

TprKilled ==
    /\ tprPc = "recv" /\ Take(Kill)
    /\ tprPc' = "close"
    /\ UNCHANGED <<inFlight, fdOpen>>

TprClose ==
    /\ tprPc = "close"
    /\ fdOpen' = FALSE /\ tprPc' = "return"
    /\ UNCHANGED <<net, inFlight>>

TprReturn == tprPc = "return" /\ Stop("exited") /\ UNCHANGED tprVars

(* sendto fails for certain on the closed socket, and may fail before: the *)
(* thread ends the server.                                                 *)
HandlerSends(c) ==
    /\ c \in inFlight /\ fdOpen
    /\ Answer(c)
    /\ inFlight' = inFlight \ {c}
    /\ UNCHANGED <<tprPc, fdOpen>>

HandlerFails(c) ==
    /\ c \in inFlight /\ (SendsFail \/ ~fdOpen)
    /\ Stop("failed") /\ UNCHANGED tprVars

TprNext ==
    /\ status = "up"
    /\ \/ TprKilled \/ TprClose \/ TprReturn
       \/ \E c \in Clients :
            TprReceive(c) \/ HandlerSends(c) \/ HandlerFails(c)
=============================================================================
