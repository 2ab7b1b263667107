----------------------------- MODULE TimeService -----------------------------
(***************************************************************************)
(* What a time server promises, whichever of the models of                 *)
(* task16_cs_models it follows: each client it has received is answered at *)
(* most once, and nobody is received or answered after it has ended.       *)
(***************************************************************************)
EXTENDS Naturals

CONSTANT Clients

VARIABLES
    accepted,   \* the clients whose request the server has received
    answers,    \* answers[c]: how often client c was answered
    up          \* whether the server runs

vars == <<accepted, answers, up>>

Init == accepted = {} /\ answers = [c \in Clients |-> 0] /\ up = TRUE

Accept(c) ==
    /\ up /\ c \notin accepted
    /\ accepted' = accepted \cup {c}
    /\ UNCHANGED <<answers, up>>

Answer(c) ==
    /\ up /\ c \in accepted /\ answers[c] = 0
    /\ answers' = [answers EXCEPT ![c] = 1]
    /\ UNCHANGED <<accepted, up>>

Stop == up /\ up' = FALSE /\ UNCHANGED <<accepted, answers>>

Next == Stop \/ \E c \in Clients : Accept(c) \/ Answer(c)

Spec == Init /\ [][Next]_vars
=============================================================================
