--------------------------------- MODULE Echo ---------------------------------
(***************************************************************************)
(* task_echo: a server that sends each line back with the number of lines  *)
(* of its sender, and clients.  Both use raw sockets, so that every client *)
(* on the host reads every answer to its port; all the clients of this     *)
(* program use one port.  A thread of the server reads "kill" and ends it  *)
(* with two signals, the first of which may interrupt main anywhere.       *)
(***************************************************************************)
EXTENDS Naturals, Sequences

CONSTANTS
    EchoClients,    \* processes that talk to the server
    Port,           \* Port[c]: CLIENT_PORT, or that of another program
    MaxTyped        \* bound: MaxTyped[c] lines are typed at client c

ASSUME EchoAssumption ==
    /\ MaxTyped \in [EchoClients -> Nat]
    /\ DOMAIN Port = EchoClients

Ports == {Port[c] : c \in EchoClients}

VARIABLES
    echoPc,     \* main of the server, see EchoTypeOK
    command,    \* command_handler: "read", "sleep" or "gone"
    inbox,      \* what has reached the server; main has received the head
                \* when it stands at "malloc" or "answer"
    list,       \* the senders it knows, from head to tail
    cliPc,      \* a client: "off", "prompt", "wait" or "gone"
    typed,      \* how many lines it has sent
    mail,       \* the answers to its port that its socket holds
    (* history *)
    heard,      \* the answers it has shown
    disturbed   \* the clients that have met another at their port

serverVars == <<echoPc, command, list>>
clientVars == <<cliPc, typed, heard, disturbed>>
echoVars   == <<serverVars, clientVars, inbox, mail>>

Exit == 0       \* the text "!exit"; the other texts are numbered

EchoInit ==
    /\ echoPc = "start" /\ command = "read" /\ list = <<>> /\ inbox = <<>>
    /\ cliPc = [c \in EchoClients |-> "off"]
    /\ typed = [c \in EchoClients |-> 0]
    /\ mail = [c \in EchoClients |-> <<>>]
    /\ heard = [c \in EchoClients |-> <<>>]
    /\ disturbed = {}

-----------------------------------------------------------------------------
(* The server: main and the list.                                          *)

Listens ==
    /\ echoPc = "start" /\ echoPc' = "receive"
    /\ UNCHANGED <<command, list, clientVars, inbox, mail>>

request == Head(inbox)
sender  == Port[request.from]

Known(port) == {i \in DOMAIN list : list[i].port = port}

(* Fault: !exit leaves the count as it is.                                 *)
list_switch_off_Forgotten(port) == UNCHANGED list

list_switch_off(port) ==
    list' = [i \in DOMAIN list |->
                IF i \in Known(port) THEN [list[i] EXCEPT !.count = 0]
                ELSE list[i]]

Counts(port) ==
    list' = [i \in DOMAIN list |->
                IF i \in Known(port) THEN [list[i] EXCEPT !.count = @ + 1]
                ELSE list[i]]

Handles ==
    /\ echoPc = "receive" /\ inbox # <<>>
    /\ IF request.text = Exit
       THEN list_switch_off(sender) /\ inbox' = Tail(inbox) /\ UNCHANGED echoPc
       ELSE /\ UNCHANGED inbox
            /\ IF Known(sender) = {}
               THEN echoPc' = "malloc" /\ UNCHANGED list
               ELSE echoPc' = "answer" /\ Counts(sender)
    /\ UNCHANGED <<command, clientVars, mail>>

Inserts ==
    /\ echoPc = "malloc" /\ echoPc' = "answer"
    /\ list' = Append(list, [port |-> sender, count |-> 1])
    /\ UNCHANGED <<command, clientVars, inbox, mail>>

CountOf(port) == list[CHOOSE i \in Known(port) : TRUE].count

(* The count n goes out as the char n + '0': a digit up to the ninth line, *)
(* then the characters behind the digits, and round again after 256.       *)
CountChar(n) == (n + 48) % 256

(* The kernel hands a copy to each raw socket on the host.                 *)
Answers ==
    LET answer == [from |-> request.from, text |-> request.text,
                   count |-> CountChar(CountOf(sender))]
    IN  /\ echoPc = "answer" /\ echoPc' = "receive"
        /\ inbox' = Tail(inbox)
        /\ mail' = [c \in EchoClients |->
                       IF cliPc[c] \in {"prompt", "wait"} /\ Port[c] = sender
                       THEN Append(mail[c], answer) ELSE mail[c]]
        /\ UNCHANGED <<command, list, clientVars>>

SendFails ==
    /\ echoPc = "answer" /\ echoPc' = "ended"
    /\ command' = "gone"
    /\ UNCHANGED <<list, clientVars, inbox, mail>>

EchoMain == Listens \/ Handles \/ Inserts \/ Answers \/ SendFails

(* The user types kill: SIGUSR1 makes main free the list and pause.  If it *)
(* was in malloc, free waits for ever for the lock of the heap; before     *)
(* there is a list the handler faults.                                     *)
Kills ==
    /\ command = "read" /\ echoPc # "ended"
    /\ \/ command' = "sleep" /\ echoPc' = "pause" /\ list' = <<>>
       \/ /\ command' = "sleep" /\ echoPc \in {"start", "malloc"}
          /\ echoPc' = "stuck" /\ UNCHANGED list
       \/ /\ command' = "gone" /\ echoPc = "start"
          /\ echoPc' = "ended" /\ UNCHANGED list
    /\ UNCHANGED <<clientVars, inbox, mail>>

(* 100 ms later SIGTERM ends the process, whatever main does.              *)
Terminates ==
    /\ command = "sleep" /\ command' = "gone"
    /\ echoPc' = "ended"
    /\ UNCHANGED <<list, clientVars, inbox, mail>>

-----------------------------------------------------------------------------
(* The clients.                                                            *)

Open(c) == cliPc[c] \in {"prompt", "wait"}

(* A line of d has not been answered yet.                                  *)
Asks(d) == \E i \in DOMAIN inbox : inbox[i].from = d /\ inbox[i].text # Exit

(* Those whose answers c reads too, if it opens now.                       *)
Met(c) ==
    {d \in EchoClients \ {c} : Port[d] = Port[c] /\ (Open(d) \/ Asks(d))}

Opens(c) ==
    /\ cliPc[c] = "off"
    /\ cliPc' = [cliPc EXCEPT ![c] = "prompt"]
    /\ disturbed' = IF Met(c) = {} THEN disturbed
                    ELSE disturbed \cup Met(c) \cup {c}
    /\ UNCHANGED <<serverVars, inbox, typed, mail, heard>>

(* Nobody keeps what is sent before the server has its socket.             *)
ToServer(c, text) ==
    inbox' = IF echoPc \in {"start", "ended"} THEN inbox
             ELSE Append(inbox, [from |-> c, text |-> text])

SendsLine(c) ==
    /\ cliPc[c] = "prompt" /\ typed[c] < MaxTyped[c]
    /\ cliPc' = [cliPc EXCEPT ![c] = "wait"]
    /\ typed' = [typed EXCEPT ![c] = @ + 1]
    /\ ToServer(c, typed[c] + 1)
    /\ UNCHANGED <<serverVars, mail, heard, disturbed>>

ReadsAnswer(c) ==
    /\ cliPc[c] = "wait" /\ mail[c] # <<>>
    /\ cliPc' = [cliPc EXCEPT ![c] = "prompt"]
    /\ heard' = [heard EXCEPT ![c] = Append(@, Head(mail[c]))]
    /\ mail' = [mail EXCEPT ![c] = Tail(@)]
    /\ UNCHANGED <<serverVars, inbox, typed, disturbed>>

SendsExit(c) ==
    /\ cliPc[c] = "prompt"
    /\ cliPc' = [cliPc EXCEPT ![c] = "gone"]
    /\ mail' = [mail EXCEPT ![c] = <<>>]
    /\ ToServer(c, Exit)
    /\ UNCHANGED <<serverVars, typed, heard, disturbed>>

EchoClient(c) ==
    Opens(c) \/ SendsLine(c) \/ ReadsAnswer(c) \/ SendsExit(c)

EchoNext ==
    EchoMain \/ Kills \/ Terminates \/ \E c \in EchoClients : EchoClient(c)

EchoSpec == EchoInit /\ [][EchoNext]_echoVars

-----------------------------------------------------------------------------
EchoTypeOK ==
    /\ echoPc \in
          {"start", "receive", "malloc", "answer", "pause", "stuck", "ended"}
    /\ command \in {"read", "sleep", "gone"}
    /\ inbox \in Seq([from : EchoClients, text : Nat])
    /\ list \in Seq([port : Ports, count : Nat])
    /\ cliPc \in [EchoClients -> {"off", "prompt", "wait", "gone"}]
    /\ typed \in [EchoClients -> Nat]
    /\ disturbed \subseteq EchoClients

(* A client that has its port for itself while it runs is in step with the *)
(* server: the answer it shows is to the line it has just sent, and counts *)
(* its own lines, whoever used the port before it and left with !exit, and *)
(* whatever clients of other ports do.  What shows the count k is the char *)
(* of k, which from the tenth line on is no digit.  Two clients at a time  *)
(* get out of step, because each reads the other's answers (client.c       *)
(* 50-66, server.c 66-107, list.c).                                        *)
AnswersInStep ==
    \A c \in EchoClients \ disturbed : \A k \in DOMAIN heard[c] :
        heard[c][k] = [from |-> c, text |-> k, count |-> CountChar(k)]
=============================================================================
