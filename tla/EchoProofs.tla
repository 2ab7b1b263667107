------------------------------ MODULE EchoProofs -------------------------------
(***************************************************************************)
(* AnswersInStep for any clients, ports and lines.  What the server has    *)
(* counted for a port, what is on its way from that port, and what its     *)
(* only client has heard belong together; a port that nobody has open      *)
(* rests behind an !exit.                                                  *)
(***************************************************************************)
EXTENDS Echo, SequenceTheorems, TLAPS

Requests  == [from : EchoClients, text : Nat]
Echoes    == [from : EchoClients, text : Nat, count : Nat]
Senders   == [port : Ports, count : Nat]

Lines(s, p) == {i \in DOMAIN s : Port[s[i].from] = p /\ s[i].text # Exit}
Exits(s, p) == {i \in DOMAIN s : Port[s[i].from] = p /\ s[i].text = Exit}

(* Behind every line of port p there is an !exit.                          *)
Ends(s, p) == \A i \in Lines(s, p) : \E j \in Exits(s, p) : i < j

(* No line of port p but r, and nothing of the port behind it.             *)
Only(s, p, r) ==
    \A i \in Lines(s, p) :
        s[i] = r /\ \A j \in Lines(s, p) \cup Exits(s, p) : j <= i

Silent(s, c) == \A i \in DOMAIN s : s[i].from # c

(* The server has counted n lines of port p since its last !exit.          *)
Count(l, p, n) ==
    /\ (\A i \in DOMAIN l : l[i].port # p) => n = 0
    /\ \A i \in DOMAIN l : l[i].port = p => l[i].count = n

Live == echoPc \in {"start", "receive", "malloc", "answer"}

ServerForm ==
    /\ echoPc \in {"start", "receive", "malloc", "answer", "pause", "stuck",
                   "ended"}
    /\ inbox \in Seq(Requests) /\ list \in Seq(Senders)
    /\ echoPc = "start" => inbox = <<>> /\ list = <<>>
    /\ echoPc \in {"malloc", "answer"} => inbox # <<>> /\ request.text # Exit
    /\ echoPc = "malloc" => Known(sender) = {}
    /\ echoPc = "answer" => Known(sender) # {}

ClientForm ==
    /\ cliPc \in [EchoClients -> {"off", "prompt", "wait", "gone"}]
    /\ typed \in [EchoClients -> Nat]
    /\ mail \in [EchoClients -> Seq(Echoes)]
    /\ heard \in [EchoClients -> Seq(Echoes)]
    /\ disturbed \subseteq EchoClients

Unheard(c) ==
    cliPc[c] = "off" =>
        /\ typed[c] = 0 /\ heard[c] = <<>> /\ mail[c] = <<>>
        /\ Silent(inbox, c)

Rests(p) ==
    Live /\ (\A c \in EchoClients : Open(c) => Port[c] # p) =>
        /\ Ends(inbox, p)
        /\ Lines(inbox, p) = {} /\ Exits(inbox, p) = {} => Count(list, p, 0)

ItsLine(c)   == [from |-> c, text |-> typed[c]]
ItsAnswer(c) ==
    [from |-> c, text |-> typed[c], count |-> CountChar(typed[c])]

Alone(c) == \A d \in EchoClients : Open(d) /\ Port[d] = Port[c] => d = c

(* The line at the head of the inbox is of the port of c, and counted.     *)
Counted(c) == echoPc = "answer" /\ sender = Port[c]

(* What the server has counted for c.  An !exit that is still on its way   *)
(* is of an earlier client of the port.                                    *)
Agrees(c) ==
    cliPc[c] = "prompt" \/ Lines(inbox, Port[c]) # {} \/ mail[c] # <<>> =>
        IF Exits(inbox, Port[c]) # {} THEN heard[c] = <<>> /\ mail[c] = <<>>
        ELSE IF Lines(inbox, Port[c]) = {} \/ Counted(c)
        THEN Count(list, Port[c], typed[c])
        ELSE Count(list, Port[c], Len(heard[c]))

InStepWith(c) ==
    Live =>
        /\ Only(inbox, Port[c], ItsLine(c))
        /\ Lines(inbox, Port[c]) # {} => cliPc[c] = "wait" /\ mail[c] = <<>>
        /\ Agrees(c)

Hears(c) ==
    /\ \A k \in DOMAIN heard[c] :
           heard[c][k] = [from |-> c, text |-> k, count |-> CountChar(k)]
    /\ cliPc[c] = "prompt" => typed[c] = Len(heard[c]) /\ mail[c] = <<>>
    /\ cliPc[c] = "wait" =>
           typed[c] = Len(heard[c]) + 1 /\ mail[c] \in {<<>>, <<ItsAnswer(c)>>}

Undisturbed(c) == Hears(c) /\ (Open(c) => Alone(c) /\ InStepWith(c))

EchoInv ==
    /\ ServerForm /\ ClientForm
    /\ \A c \in EchoClients : Unheard(c)
    /\ \A p \in Ports : Rests(p)
    /\ \A c \in EchoClients \ disturbed : Undisturbed(c)

-----------------------------------------------------------------------------
(* Sequences.                                                               *)

LEMMA Appended ==
    ASSUME NEW S, NEW s \in Seq(S), NEW e \in S, NEW n, n = Len(s) + 1
    PROVE  LET t == Append(s, e) IN
           /\ t \in Seq(S) /\ n \in DOMAIN t /\ n \notin DOMAIN s /\ t[n] = e
           /\ DOMAIN t = DOMAIN s \cup {n}
           /\ \A i \in DOMAIN s : i < n /\ t[i] = s[i]
<1> DEFINE t == Append(s, e)
<1>1. /\ t \in Seq(S) /\ Len(t) = Len(s) + 1 /\ t[n] = e
      /\ \A i \in 1..Len(s) : t[i] = s[i]
      /\ Len(s) \in Nat /\ DOMAIN s = 1..Len(s)
  BY AppendProperties, LenProperties
<1> HIDE DEF t
<1>2. DOMAIN t = 1..Len(t)
  BY <1>1, LenProperties
<1>3. DOMAIN t = DOMAIN s \cup {n} /\ n \in DOMAIN t /\ n \notin DOMAIN s
  BY <1>1, <1>2
<1>4. \A i \in DOMAIN s : i < n
  BY <1>1
<1> USE DEF t
<1> QED
  BY <1>1, <1>3, <1>4

LEMMA TakenOff ==
    ASSUME NEW S, NEW s \in Seq(S), s # <<>>
    PROVE  LET t == Tail(s) IN
           /\ t \in Seq(S) /\ 1 \in DOMAIN s /\ s[1] = Head(s) /\ Head(s) \in S
           /\ \A i \in DOMAIN t : i + 1 \in DOMAIN s /\ i + 1 # 1 /\ t[i] = s[i + 1]
           /\ \A i, j \in DOMAIN t : i < j => i + 1 < j + 1
           /\ \A i, j \in DOMAIN t : i + 1 = j + 1 => i = j
           /\ \A i \in DOMAIN s \ {1} :
                 /\ 1 < i /\ i - 1 \in DOMAIN t /\ t[i - 1] = s[i]
                 /\ (i - 1) + 1 = i
           /\ \A i \in DOMAIN t : \A j \in DOMAIN s : i + 1 < j => i < j - 1
           /\ \A i \in DOMAIN t : \A j \in DOMAIN s \ {1} :
                 j <= i + 1 => j - 1 <= i
<1> DEFINE t == Tail(s)
<1>1. /\ t \in Seq(S) /\ Len(t) = Len(s) - 1 /\ Head(s) \in S
      /\ \A i \in 1..Len(t) : t[i] = s[i + 1]
      /\ Len(s) \in Nat \ {0} /\ DOMAIN s = 1..Len(s)
  BY HeadTailProperties, LenProperties, EmptySeq
<1> HIDE DEF t
<1>2. DOMAIN t = 1..Len(t)
  BY <1>1, LenProperties
<1>3. 1 \in DOMAIN s /\ s[1] = Head(s)
  BY <1>1
<1>4. \A i \in DOMAIN t : i + 1 \in DOMAIN s /\ i + 1 # 1 /\ t[i] = s[i + 1]
  BY <1>1, <1>2
<1>5. \A i, j \in DOMAIN t : (i < j => i + 1 < j + 1) /\ (i + 1 = j + 1 => i = j)
  BY <1>2
<1>6. \A i \in DOMAIN s \ {1} :
         /\ 1 < i /\ i - 1 \in DOMAIN t /\ (i - 1) + 1 = i
  BY <1>1, <1>2
<1>7. \A i \in DOMAIN s \ {1} : t[i - 1] = s[i]
  BY <1>4, <1>6
<1>8. \A i \in DOMAIN t : \A j \in DOMAIN s :
         (i + 1 < j => i < j - 1) /\ (j <= i + 1 => j - 1 <= i)
  BY <1>1, <1>2
<1> USE DEF t
<1> QED
  BY <1>1, <1>3, <1>4, <1>5, <1>6, <1>7, <1>8

-----------------------------------------------------------------------------
(* The inbox: a message taken from its head, and one put at its end.       *)

LEMMA HeadTaken ==
    ASSUME NEW s \in Seq(Requests), s # <<>>, NEW p
    PROVE  LET t == Tail(s)
               e == Head(s)
           IN
           /\ t \in Seq(Requests) /\ e \in Requests
           /\ Ends(s, p) => Ends(t, p)
           /\ Lines(s, p) = {} => Lines(t, p) = {}
           /\ Exits(s, p) = {} => Exits(t, p) = {}
           /\ Port[e.from] # p \/ e.text = Exit =>
                 (Lines(t, p) = {} => Lines(s, p) = {})
           /\ Port[e.from] # p \/ e.text # Exit =>
                 (Exits(t, p) = {} => Exits(s, p) = {})
           /\ Port[e.from] = p /\ e.text # Exit => Lines(s, p) # {}
           /\ Port[e.from] = p /\ e.text = Exit => Exits(s, p) # {}
           /\ Port[e.from] = p /\ e.text # Exit /\ Ends(s, p) =>
                 Exits(s, p) # {}
<1> DEFINE t == Tail(s)
           e == Head(s)
<1>1. /\ t \in Seq(Requests) /\ 1 \in DOMAIN s /\ s[1] = e /\ e \in Requests
      /\ \A i \in DOMAIN t : i + 1 \in DOMAIN s /\ i + 1 # 1 /\ t[i] = s[i + 1]
      /\ \A i \in DOMAIN s \ {1} :
            /\ 1 < i /\ i - 1 \in DOMAIN t /\ t[i - 1] = s[i]
            /\ (i - 1) + 1 = i
      /\ \A i \in DOMAIN t : \A j \in DOMAIN s : i + 1 < j => i < j - 1
  BY TakenOff
<1> HIDE DEF t, e
<1>2. \A i \in DOMAIN t : /\ i \in Lines(t, p) <=> i + 1 \in Lines(s, p)
                          /\ i \in Exits(t, p) <=> i + 1 \in Exits(s, p)
  BY <1>1 DEF Lines, Exits
<1>3. \A i \in DOMAIN s \ {1} :
         /\ i \in Lines(s, p) <=> i - 1 \in Lines(t, p)
         /\ i \in Exits(s, p) <=> i - 1 \in Exits(t, p)
  BY <1>1 DEF Lines, Exits
<1>4. /\ 1 \in Lines(s, p) <=> Port[e.from] = p /\ e.text # Exit
      /\ 1 \in Exits(s, p) <=> Port[e.from] = p /\ e.text = Exit
  BY <1>1 DEF Lines, Exits
<1>5. /\ Lines(s, p) \subseteq DOMAIN s /\ Exits(s, p) \subseteq DOMAIN s
      /\ Lines(t, p) \subseteq DOMAIN t /\ Exits(t, p) \subseteq DOMAIN t
  BY DEF Lines, Exits
<1>6. /\ Lines(s, p) = {} => Lines(t, p) = {}
      /\ Exits(s, p) = {} => Exits(t, p) = {}
      /\ Port[e.from] # p \/ e.text = Exit =>
            (Lines(t, p) = {} => Lines(s, p) = {})
      /\ Port[e.from] # p \/ e.text # Exit =>
            (Exits(t, p) = {} => Exits(s, p) = {})
      /\ Port[e.from] = p /\ e.text # Exit => Lines(s, p) # {}
      /\ Port[e.from] = p /\ e.text = Exit => Exits(s, p) # {}
  BY <1>2, <1>3, <1>4, <1>5, Zenon
<1>7. Port[e.from] = p /\ e.text # Exit /\ Ends(s, p) => Exits(s, p) # {}
  BY <1>4 DEF Ends
<1>8. ASSUME Ends(s, p) PROVE Ends(t, p)
  <2> SUFFICES ASSUME NEW i \in Lines(t, p)
               PROVE  \E j \in Exits(t, p) : i < j
    BY DEF Ends
  <2>1. PICK j \in Exits(s, p) : i + 1 < j
    BY <1>2, <1>5, <1>8 DEF Ends
  <2>2. i \in DOMAIN t /\ j \in DOMAIN s
    BY <1>5
  <2>3. j # 1
    BY <1>1, <2>1, <2>2
  <2> QED
    BY <1>1, <1>3, <2>1, <2>2, <2>3
<1> USE DEF t, e
<1> QED
  BY <1>1, <1>6, <1>7, <1>8

LEMMA OnlyBehind ==
    ASSUME NEW s \in Seq(Requests), s # <<>>, NEW p, NEW r, Only(s, p, r)
    PROVE  LET t == Tail(s)
               e == Head(s)
           IN
           /\ Only(t, p, r)
           /\ Port[e.from] = p /\ e.text # Exit =>
                 e = r /\ Lines(t, p) = {} /\ Exits(s, p) = {}
<1> DEFINE t == Tail(s)
           e == Head(s)
<1>1. /\ 1 \in DOMAIN s /\ s[1] = e /\ DOMAIN s \subseteq Nat
      /\ \A i \in DOMAIN t : i + 1 \in DOMAIN s /\ i + 1 # 1 /\ t[i] = s[i + 1]
      /\ \A i \in DOMAIN s \ {1} : 1 < i
      /\ \A i, j \in DOMAIN t : j + 1 <= i + 1 => j <= i
  <2>1. DOMAIN t \subseteq Nat /\ DOMAIN s \subseteq Nat
    BY TakenOff, LenProperties
  <2> HIDE DEF t, e
  <2>2. \A i, j \in DOMAIN t : j + 1 <= i + 1 => j <= i
    BY <2>1
  <2> USE DEF t, e
  <2> QED
    BY <2>1, <2>2, TakenOff
<1> HIDE DEF t, e
<1>2. \A i \in DOMAIN t : /\ i \in Lines(t, p) => i + 1 \in Lines(s, p)
                          /\ i \in Exits(t, p) => i + 1 \in Exits(s, p)
  BY <1>1 DEF Lines, Exits
<1>3. /\ Lines(s, p) \subseteq DOMAIN s /\ Exits(s, p) \subseteq DOMAIN s
      /\ Lines(t, p) \subseteq DOMAIN t /\ Exits(t, p) \subseteq DOMAIN t
  BY DEF Lines, Exits
<1>4. Only(t, p, r)
  <2> SUFFICES ASSUME NEW i \in Lines(t, p)
               PROVE  /\ t[i] = r
                      /\ \A j \in Lines(t, p) \cup Exits(t, p) : j <= i
    BY DEF Only
  <2>1. i + 1 \in Lines(s, p) /\ t[i] = s[i + 1]
    BY <1>1, <1>2, <1>3
  <2>2. \A j \in Lines(t, p) \cup Exits(t, p) : j + 1 <= i + 1
    BY <1>2, <1>3, <2>1 DEF Only
  <2> QED
    BY <1>1, <1>3, <2>1, <2>2 DEF Only
<1>5. ASSUME Port[e.from] = p, e.text # Exit
      PROVE  e = r /\ Lines(t, p) = {} /\ Exits(s, p) = {}
  <2>1. 1 \in Lines(s, p)
    BY <1>1, <1>5 DEF Lines
  <2>2. e = r /\ \A j \in Lines(s, p) \cup Exits(s, p) : j <= 1
    BY <1>1, <2>1 DEF Only
  <2>3. \A j \in DOMAIN s \ {1} : ~(j <= 1)
    BY <1>1
  <2>4. Lines(t, p) = {}
    BY <1>1, <1>2, <1>3, <2>2, <2>3
  <2>5. 1 \notin Exits(s, p)
    BY <1>1, <1>5 DEF Exits
  <2> QED
    BY <1>3, <2>2, <2>3, <2>4, <2>5
<1> USE DEF t, e
<1> QED
  BY <1>4, <1>5

LEMMA Put ==
    ASSUME NEW s \in Seq(Requests), NEW e \in Requests
    PROVE  LET t == Append(s, e) IN
           /\ t \in Seq(Requests) /\ t # <<>>
           /\ s # <<>> => Head(t) = Head(s)
           /\ s = <<>> => Head(t) = e
           /\ \A c : Silent(s, c) /\ c # e.from => Silent(t, c)
           /\ \A p : Port[e.from] # p =>
                 /\ Lines(t, p) = Lines(s, p) /\ Exits(t, p) = Exits(s, p)
                 /\ Ends(s, p) => Ends(t, p)
                 /\ \A r : Only(s, p, r) => Only(t, p, r)
           /\ \A p : Port[e.from] = p /\ e.text = Exit =>
                 Ends(t, p) /\ Exits(t, p) # {}
           /\ \A p : Port[e.from] = p /\ e.text # Exit =>
                 /\ Lines(t, p) # {} /\ Exits(t, p) = Exits(s, p)
                 /\ Lines(s, p) = {} => Only(t, p, e)
<1> DEFINE t == Append(s, e)
           n == Len(s) + 1
<1>1. /\ t \in Seq(Requests) /\ n \in DOMAIN t /\ n \notin DOMAIN s /\ t[n] = e
      /\ DOMAIN t = DOMAIN s \cup {n}
      /\ \A i \in DOMAIN s : i < n /\ t[i] = s[i]
  BY Appended
<1>2. t # <<>> /\ (s # <<>> => Head(t) = Head(s)) /\ (s = <<>> => Head(t) = e)
  BY AppendProperties, HeadTailProperties, EmptySeq, LenProperties
<1>3. n \in Nat /\ DOMAIN s \subseteq Nat
  BY LenProperties
<1> HIDE DEF t, n
<1>4. \A c : Silent(s, c) /\ c # e.from => Silent(t, c)
  BY <1>1 DEF Silent
<1>5. ASSUME NEW p, Port[e.from] # p
      PROVE  /\ Lines(t, p) = Lines(s, p) /\ Exits(t, p) = Exits(s, p)
             /\ Ends(s, p) => Ends(t, p)
             /\ \A r : Only(s, p, r) => Only(t, p, r)
  <2>1. Lines(t, p) = Lines(s, p) /\ Exits(t, p) = Exits(s, p)
    BY <1>1, <1>5 DEF Lines, Exits
  <2>2. Lines(s, p) \subseteq DOMAIN s
    BY DEF Lines
  <2> QED
    BY <1>1, <2>1, <2>2 DEF Ends, Only
<1>6. ASSUME NEW p, Port[e.from] = p, e.text = Exit
      PROVE  Ends(t, p) /\ Exits(t, p) # {}
  <2>1. n \in Exits(t, p) /\ Lines(t, p) \subseteq DOMAIN s
    BY <1>1, <1>6 DEF Lines, Exits
  <2> QED
    BY <1>1, <2>1 DEF Ends
<1>7. ASSUME NEW p, Port[e.from] = p, e.text # Exit
      PROVE  /\ Lines(t, p) # {} /\ Exits(t, p) = Exits(s, p)
             /\ Lines(s, p) = {} => Only(t, p, e)
  <2>1. Lines(t, p) = Lines(s, p) \cup {n} /\ Exits(t, p) = Exits(s, p)
    BY <1>1, <1>7 DEF Lines, Exits
  <2>2. Exits(s, p) \subseteq DOMAIN s
    BY DEF Exits
  <2>3. \A j \in DOMAIN s \cup {n} : j <= n
    BY <1>1, <1>3
  <2> QED
    BY <1>1, <2>1, <2>2, <2>3 DEF Only
<1> USE DEF t
<1> QED
  BY <1>1, <1>2, <1>4, <1>5, <1>6, <1>7

-----------------------------------------------------------------------------
(* The list of senders.                                                    *)

LEMMA CountReset ==
    ASSUME list \in Seq(Senders), NEW p, list_switch_off(p)
    PROVE  /\ list' \in Seq(Senders) /\ Count(list', p, 0)
           /\ \A q, n : q # p /\ Count(list, q, n) => Count(list', q, n)
<1>1. list \in [1..Len(list) -> Senders] /\ Len(list) \in Nat
      /\ DOMAIN list = 1..Len(list)
  BY LenProperties
<1>2. \A i \in DOMAIN list :
         list'[i] = IF list[i].port = p THEN [list[i] EXCEPT !.count = 0]
                    ELSE list[i]
  BY DEF list_switch_off, Known
<1>3. ASSUME NEW i \in DOMAIN list
      PROVE  /\ list'[i] \in Senders /\ list'[i].port = list[i].port
             /\ list[i].port = p => list'[i].count = 0
             /\ list[i].port # p => list'[i] = list[i]
  <2>1. list[i] \in Senders
    BY <1>1
  <2>2. CASE list[i].port = p
    <3>1. list'[i] = [list[i] EXCEPT !.count = 0]
      BY <1>2, <2>2
    <3> QED
      BY <2>1, <2>2, <3>1 DEF Senders
  <2>3. CASE list[i].port # p
    BY <1>2, <2>1, <2>3
  <2> QED
    BY <2>2, <2>3
<1>4. DOMAIN list' = DOMAIN list /\ list' = [i \in DOMAIN list |-> list'[i]]
  BY DEF list_switch_off
<1>5. list' \in [1..Len(list) -> Senders]
  BY <1>1, <1>3, <1>4
<1>6. list' \in Seq(Senders)
  BY <1>1, <1>5, SeqDef
<1> QED
  BY <1>3, <1>4, <1>6 DEF Count

LEMMA CountRises ==
    ASSUME list \in Seq(Senders), NEW p, Known(p) # {}, Counts(p)
    PROVE  /\ list' \in Seq(Senders) /\ Known(p)' # {}
           /\ \A n \in Nat : Count(list, p, n) => Count(list', p, n + 1)
           /\ \A q, n : q # p /\ Count(list, q, n) => Count(list', q, n)
<1>1. list \in [1..Len(list) -> Senders] /\ Len(list) \in Nat
      /\ DOMAIN list = 1..Len(list)
  BY LenProperties
<1>2. \A i \in DOMAIN list :
         list'[i] = IF list[i].port = p THEN [list[i] EXCEPT !.count = @ + 1]
                    ELSE list[i]
  BY DEF Counts, Known
<1>3. ASSUME NEW i \in DOMAIN list
      PROVE  /\ list'[i] \in Senders /\ list'[i].port = list[i].port
             /\ list[i].port = p => list'[i].count = list[i].count + 1
             /\ list[i].port # p => list'[i] = list[i]
  <2>1. list[i] \in Senders
    BY <1>1
  <2>2. CASE list[i].port = p
    <3>1. list'[i] = [list[i] EXCEPT !.count = @ + 1]
      BY <1>2, <2>2
    <3> QED
      BY <2>1, <2>2, <3>1 DEF Senders
  <2>3. CASE list[i].port # p
    BY <1>2, <2>1, <2>3
  <2> QED
    BY <2>2, <2>3
<1>4. DOMAIN list' = DOMAIN list /\ list' = [i \in DOMAIN list |-> list'[i]]
  BY DEF Counts
<1>5. list' \in [1..Len(list) -> Senders]
  BY <1>1, <1>3, <1>4
<1>6. list' \in Seq(Senders)
  BY <1>1, <1>5, SeqDef
<1>7. Known(p)' = Known(p)
  BY <1>3, <1>4 DEF Known
<1>8. \E i \in DOMAIN list : list[i].port = p
  BY DEF Known
<1> QED
  BY <1>3, <1>4, <1>6, <1>7, <1>8 DEF Count

LEMMA CountStarts ==
    ASSUME list \in Seq(Senders), NEW p \in Ports, Known(p) = {},
           list' = Append(list, [port |-> p, count |-> 1])
    PROVE  /\ list' \in Seq(Senders) /\ Known(p)' # {} /\ Count(list', p, 1)
           /\ \A n : Count(list, p, n) => n = 0
           /\ \A q, n : q # p /\ Count(list, q, n) => Count(list', q, n)
<1> DEFINE e == [port |-> p, count |-> 1]
           n == Len(list) + 1
<1>1. e \in Senders /\ e.port = p /\ e.count = 1
  BY DEF Senders
<1>2. /\ list' \in Seq(Senders) /\ n \in DOMAIN list' /\ list'[n] = e
      /\ DOMAIN list' = DOMAIN list \cup {n}
      /\ \A i \in DOMAIN list : list'[i] = list[i]
  BY <1>1, Appended
<1> HIDE DEF e, n
<1>3. \A i \in DOMAIN list : list[i].port # p
  BY DEF Known
<1>4. Known(p)' # {}
  BY <1>1, <1>2 DEF Known
<1>5. Count(list', p, 1)
  BY <1>1, <1>2, <1>3 DEF Count
<1>6. ASSUME NEW q, NEW m, q # p, Count(list, q, m) PROVE Count(list', q, m)
  BY <1>1, <1>2, <1>6 DEF Count
<1>7. ASSUME NEW m, Count(list, p, m) PROVE m = 0
  BY <1>3, <1>7 DEF Count
<1> QED
  BY <1>2, <1>4, <1>5, <1>6, <1>7

LEMMA CountCharNat == \A n \in Nat : CountChar(n) \in Nat
  BY DEF CountChar

(* What the server sends back is its count.                                *)
LEMMA CountGiven ==
    ASSUME list \in Seq(Senders), NEW p, Known(p) # {}
    PROVE  /\ CountOf(p) \in Nat
           /\ \A n : Count(list, p, n) => CountOf(p) = n
<1>1. (CHOOSE i \in Known(p) : TRUE) \in Known(p)
  OBVIOUS
<1> DEFINE k == CHOOSE i \in Known(p) : TRUE
<1> HIDE DEF k
<1>2. k \in DOMAIN list /\ list[k].port = p
  BY <1>1 DEF Known, k
<1>3. list[k] \in Senders
  BY <1>2, LenProperties, ElementOfSeq
<1>4. CountOf(p) = list[k].count
  BY DEF CountOf, k
<1> QED
  BY <1>2, <1>3, <1>4 DEF Count, Senders

-----------------------------------------------------------------------------
(* What the invariant says of one port and of one client, for the steps.   *)

LEMMA EchoStart == EchoInit => EchoInv
<1> SUFFICES ASSUME EchoInit PROVE EchoInv
  OBVIOUS
<1>1. /\ echoPc = "start" /\ inbox = <<>> /\ list = <<>> /\ disturbed = {}
      /\ \A c \in EchoClients : /\ cliPc[c] = "off" /\ typed[c] = 0
                                /\ heard[c] = <<>> /\ mail[c] = <<>>
  BY DEF EchoInit
<1>2. DOMAIN inbox = {} /\ DOMAIN list = {}
  BY <1>1
<1>3. ServerForm /\ ClientForm
  BY <1>1, EmptySeq DEF EchoInit, ServerForm, ClientForm
<1>4. \A c \in EchoClients : Unheard(c)
  BY <1>1, <1>2 DEF Unheard, Silent
<1>5. \A p \in Ports : Rests(p)
  BY <1>2 DEF Rests, Ends, Lines, Count
<1>6. ASSUME NEW c \in EchoClients PROVE Undisturbed(c)
  <2>1. DOMAIN heard[c] = {} /\ cliPc[c] = "off"
    BY <1>1
  <2> QED
    BY <2>1 DEF Undisturbed, Hears, Open
<1> QED
  BY <1>3, <1>4, <1>5, <1>6 DEF EchoInv

LEMMA NothingHeard ==
    ASSUME EchoInv, NEW c \in EchoClients \ disturbed, heard[c] = <<>>
    PROVE  Len(heard[c]) = 0 /\ (cliPc[c] = "prompt" => typed[c] = 0)
  BY EmptySeq DEF EchoInv, Undisturbed, Hears

(* Steps that leave what is on its way alone.                              *)
LEMMA EchoQuiet ==
    ASSUME EchoInv, ServerForm', UNCHANGED <<clientVars, inbox, mail>>,
           \/ ~Live'
           \/ UNCHANGED list /\ echoPc = "start" /\ echoPc' = "receive"
           \/ UNCHANGED <<echoPc, list>>
    PROVE  EchoInv'
<1>1. ClientForm' /\ \A c \in EchoClients : Unheard(c)'
  BY DEF EchoInv, ClientForm, Unheard, Silent, clientVars
<1>2. /\ \A c \in EchoClients : Open(c)' = Open(c) /\ Alone(c)' = Alone(c)
      /\ \A c \in EchoClients : Hears(c)' = Hears(c)
      /\ UNCHANGED <<cliPc, typed, heard, disturbed>>
  BY DEF Open, Alone, Hears, clientVars, ItsAnswer
<1>3. Live' => Live /\ UNCHANGED list
              /\ \A c \in EchoClients : Counted(c)' = Counted(c)
  BY DEF Live, Counted, sender, request
<1>4. ASSUME NEW p \in Ports PROVE Rests(p)'
  BY <1>2, <1>3 DEF EchoInv, Rests
<1>5. ASSUME NEW c \in EchoClients \ disturbed PROVE Undisturbed(c)'
  BY <1>2, <1>3 DEF EchoInv, Undisturbed, InStepWith, Agrees, ItsLine
<1> QED
  BY <1>1, <1>2, <1>4, <1>5 DEF EchoInv

-----------------------------------------------------------------------------
(* Steps of the server.                                                    *)

LEMMA HeadForm ==
    ASSUME EchoInv, inbox # <<>>
    PROVE  /\ inbox \in Seq(Requests) /\ request \in Requests
           /\ request = Head(inbox) /\ Port[request.from] = sender
           /\ sender \in Ports
<1>1. inbox \in Seq(Requests) /\ request \in Requests
  BY HeadTailProperties DEF EchoInv, ServerForm, request
<1>2. request.from \in EchoClients
  BY <1>1 DEF Requests
<1>3. sender \in Ports
  BY <1>2 DEF sender, Ports
<1> QED
  BY <1>1, <1>3 DEF request, sender

LEMMA EchoSwitchesOff ==
    ASSUME EchoInv, Handles, request.text = Exit PROVE EchoInv'
<1> DEFINE t == Tail(inbox)
<1>1. /\ echoPc = "receive" /\ echoPc' = "receive" /\ inbox # <<>>
      /\ list_switch_off(sender) /\ inbox' = t
      /\ UNCHANGED <<command, cliPc, typed, heard, disturbed, mail>>
  BY DEF Handles, clientVars
<1>2. /\ inbox \in Seq(Requests) /\ request = Head(inbox)
      /\ Port[request.from] = sender /\ list \in Seq(Senders)
  BY <1>1, HeadForm DEF EchoInv, ServerForm
<1>3. /\ t \in Seq(Requests)
      /\ \A p : /\ Ends(inbox, p) => Ends(t, p)
                /\ Lines(inbox, p) = {} <=> Lines(t, p) = {}
                /\ p # sender => (Exits(inbox, p) = {} <=> Exits(t, p) = {})
                /\ p = sender => Exits(inbox, p) # {}
                /\ \A r : Only(inbox, p, r) => Only(t, p, r)
      /\ \A c : Silent(inbox, c) => Silent(t, c)
  <2>1. /\ t \in Seq(Requests)
        /\ \A p : /\ Ends(inbox, p) => Ends(t, p)
                  /\ Lines(inbox, p) = {} <=> Lines(t, p) = {}
                  /\ p # sender => (Exits(inbox, p) = {} <=> Exits(t, p) = {})
                  /\ p = sender => Exits(inbox, p) # {}
    BY <1>1, <1>2, HeadTaken
  <2>2. \A p, r : Only(inbox, p, r) => Only(t, p, r)
    BY <1>1, <1>2, OnlyBehind
  <2>3. \A i \in DOMAIN t : i + 1 \in DOMAIN inbox /\ t[i] = inbox[i + 1]
    BY <1>1, <1>2, TakenOff
  <2>4. \A c : Silent(inbox, c) => Silent(t, c)
    BY <2>3 DEF Silent
  <2> QED
    BY <2>1, <2>2, <2>4
<1> HIDE DEF t
<1>4. /\ list' \in Seq(Senders) /\ Count(list', sender, 0)
      /\ \A q, n : q # sender /\ Count(list, q, n) => Count(list', q, n)
  BY <1>1, <1>2, CountReset
<1>5. ServerForm' /\ ClientForm'
  BY <1>1, <1>3, <1>4 DEF EchoInv, ServerForm, ClientForm
<1>6. Live /\ \A c \in EchoClients : ~Counted(c) /\ ~Counted(c)'
  BY <1>1 DEF Live, Counted
<1>7. ASSUME NEW c \in EchoClients PROVE Unheard(c)' /\ Open(c)' = Open(c)
  BY <1>1, <1>3 DEF EchoInv, Unheard, Open
<1>8. ASSUME NEW p \in Ports PROVE Rests(p)'
  BY <1>1, <1>3, <1>4, <1>6, <1>7 DEF EchoInv, Rests
<1>9. ASSUME NEW c \in EchoClients \ disturbed PROVE Undisturbed(c)'
  <2>1. Hears(c)'
    BY <1>1 DEF EchoInv, Undisturbed, Hears, ItsAnswer
  <2>2. Open(c) => Alone(c)'
    BY <1>7 DEF EchoInv, Undisturbed, Alone
  <2>3. ASSUME Open(c) PROVE InStepWith(c)'
    <3> DEFINE p == Port[c]
    <3>1. /\ Only(inbox, p, ItsLine(c)) /\ Agrees(c)
          /\ Lines(inbox, p) # {} => cliPc[c] = "wait" /\ mail[c] = <<>>
      BY <1>6, <2>3 DEF EchoInv, Undisturbed, InStepWith
    <3>2. ItsLine(c)' = ItsLine(c)
      BY <1>1 DEF ItsLine
    <3>3. Agrees(c)'
      <4> SUFFICES ASSUME \/ cliPc[c] = "prompt" \/ mail[c] # <<>>
                          \/ Lines(inbox, p) # {}
                   PROVE  IF Exits(t, p) # {} THEN heard[c] = <<>> /\ mail[c] = <<>>
                          ELSE IF Lines(t, p) = {}
                          THEN Count(list', p, typed[c])
                          ELSE Count(list', p, Len(heard[c]))
        BY <1>1, <1>3, <1>6 DEF Agrees
      <4>1. CASE p # sender
        BY <1>3, <1>4, <1>6, <3>1, <4>1 DEF Agrees
      <4>2. CASE p = sender
        <5>1. heard[c] = <<>> /\ mail[c] = <<>>
          BY <1>3, <3>1, <4>2 DEF Agrees
        <5>2. Len(heard[c]) = 0 /\ (Lines(t, p) = {} => typed[c] = 0)
          BY <1>3, <5>1, NothingHeard
        <5> QED
          BY <1>4, <4>2, <5>1, <5>2
      <4> QED
        BY <4>1, <4>2
    <3> QED
      BY <1>1, <1>3, <3>1, <3>2, <3>3 DEF InStepWith
  <2> QED
    BY <1>7, <2>1, <2>2, <2>3 DEF Undisturbed
<1> QED
  BY <1>1, <1>5, <1>7, <1>8, <1>9 DEF EchoInv

(* A line at the head of the inbox is counted, or begins an entry.         *)
LEMMA EchoCounts ==
    ASSUME EchoInv, inbox # <<>>, request.text # Exit,
           echoPc \in {"receive", "malloc"}, echoPc' \in {"malloc", "answer"},
           UNCHANGED <<command, clientVars, inbox, mail>>, ServerForm',
           \/ UNCHANGED list /\ echoPc' = "malloc"
           \/ /\ echoPc' = "answer"
              /\ \A n \in Nat : Count(list, sender, n) => Count(list', sender, n + 1)
              /\ \A q, n : q # sender /\ Count(list, q, n) => Count(list', q, n)
    PROVE  EchoInv'
<1>1. /\ inbox \in Seq(Requests) /\ request = Head(inbox)
      /\ Port[request.from] = sender
  BY HeadForm
<1>2. ClientForm' /\ \A c \in EchoClients : Unheard(c)'
  BY DEF EchoInv, ClientForm, Unheard, Silent, clientVars
<1>3. /\ \A c \in EchoClients : Open(c)' = Open(c) /\ Alone(c)' = Alone(c)
      /\ \A c \in EchoClients : Hears(c)' = Hears(c)
      /\ UNCHANGED <<cliPc, typed, heard, disturbed, mail, inbox>>
      /\ sender' = sender
  BY DEF Open, Alone, Hears, clientVars, ItsAnswer, sender, request
<1>4. Live /\ Live' /\ (\A c \in EchoClients : ~Counted(c))
      /\ Lines(inbox, sender) # {}
  BY <1>1, HeadTaken DEF Live, Counted
<1>5. ASSUME NEW p \in Ports PROVE Rests(p)'
  BY <1>3, <1>4 DEF EchoInv, Rests
<1>6. ASSUME NEW c \in EchoClients \ disturbed PROVE Undisturbed(c)'
  <2> SUFFICES ASSUME Open(c) PROVE InStepWith(c)'
    BY <1>3 DEF EchoInv, Undisturbed
  <2> DEFINE p == Port[c]
  <2>1. /\ Only(inbox, p, ItsLine(c)) /\ Agrees(c) /\ Hears(c)
        /\ Lines(inbox, p) # {} => cliPc[c] = "wait" /\ mail[c] = <<>>
    BY <1>4 DEF EchoInv, Undisturbed, InStepWith
  <2>2. Agrees(c)'
    <3>1. CASE p # sender \/ echoPc' = "malloc"
      BY <1>3, <1>4, <2>1, <3>1 DEF Agrees, Counted
    <3>2. CASE p = sender /\ echoPc' = "answer"
      <4>1. Exits(inbox, p) = {} /\ Lines(inbox, p) # {} /\ cliPc[c] = "wait"
        BY <1>1, <1>4, <2>1, <3>2, OnlyBehind
      <4>2. Count(list, p, Len(heard[c])) /\ typed[c] = Len(heard[c]) + 1
        BY <1>4, <2>1, <4>1 DEF Agrees, Hears
      <4>3. Len(heard[c]) \in Nat
        BY LenProperties DEF EchoInv, ClientForm
      <4>4. Count(list', p, typed[c])
        BY <3>2, <4>2, <4>3
      <4> QED
        BY <1>3, <3>2, <4>1, <4>4 DEF Agrees, Counted
    <3> QED
      BY <3>1, <3>2
  <2> QED
    BY <1>3, <2>1, <2>2 DEF InStepWith, ItsLine
<1> QED
  BY <1>2, <1>3, <1>5, <1>6 DEF EchoInv

LEMMA EchoHandles == ASSUME EchoInv, Handles PROVE EchoInv'
<1>1. CASE request.text = Exit
  BY <1>1, EchoSwitchesOff
<1>2. CASE request.text # Exit
  <2>1. /\ echoPc = "receive" /\ inbox # <<>> /\ inbox' = inbox
        /\ UNCHANGED <<command, clientVars, mail>>
        /\ IF Known(sender) = {} THEN echoPc' = "malloc" /\ UNCHANGED list
           ELSE echoPc' = "answer" /\ Counts(sender)
    BY <1>2 DEF Handles
  <2>2. list \in Seq(Senders)
    BY DEF EchoInv, ServerForm
  <2>3. /\ request' = request /\ sender' = sender
        /\ UNCHANGED list => Known(sender)' = Known(sender)
    BY <2>1 DEF request, sender, Known
  <2>4. CASE Known(sender) = {}
    <3>1. ServerForm'
      BY <1>2, <2>1, <2>3, <2>4 DEF EchoInv, ServerForm
    <3> QED
      BY <1>2, <2>1, <2>4, <3>1, EchoCounts
  <2>5. CASE Known(sender) # {}
    <3>1. /\ list' \in Seq(Senders) /\ {i \in DOMAIN list' : list'[i].port = sender} # {}
          /\ \A n \in Nat : Count(list, sender, n) => Count(list', sender, n + 1)
          /\ \A q, n : q # sender /\ Count(list, q, n) => Count(list', q, n)
      BY <2>1, <2>2, <2>5, CountRises DEF Known
    <3>2. ServerForm'
      BY <1>2, <2>1, <2>3, <3>1 DEF EchoInv, ServerForm, Known
    <3> QED
      BY <1>2, <2>1, <2>5, <3>1, <3>2, EchoCounts
  <2> QED
    BY <2>4, <2>5
<1> QED
  BY <1>1, <1>2

LEMMA EchoInserts == ASSUME EchoInv, Inserts PROVE EchoInv'
<1>1. /\ echoPc = "malloc" /\ echoPc' = "answer"
      /\ list' = Append(list, [port |-> sender, count |-> 1])
      /\ UNCHANGED <<command, clientVars, inbox, mail>>
  BY DEF Inserts
<1>2. /\ inbox # <<>> /\ request.text # Exit /\ Known(sender) = {}
      /\ list \in Seq(Senders)
  BY <1>1 DEF EchoInv, ServerForm
<1>3. sender \in Ports /\ sender' = sender /\ request' = request
  BY <1>1, <1>2, HeadForm DEF sender, request
<1>4. /\ list' \in Seq(Senders) /\ {i \in DOMAIN list' : list'[i].port = sender} # {}
      /\ Count(list', sender, 1) /\ \A n : Count(list, sender, n) => n = 0
      /\ \A q, n : q # sender /\ Count(list, q, n) => Count(list', q, n)
  BY <1>1, <1>2, <1>3, CountStarts DEF Known
<1>5. ServerForm'
  BY <1>1, <1>2, <1>3, <1>4 DEF EchoInv, ServerForm, Known
<1>6. ASSUME NEW n \in Nat, Count(list, sender, n)
      PROVE  Count(list', sender, n + 1)
  <2>1. n = 0 /\ 0 + 1 = 1
    BY <1>4, <1>6
  <2> QED
    BY <1>4, <2>1
<1> QED
  BY <1>1, <1>2, <1>4, <1>5, <1>6, EchoCounts

LEMMA EchoAnswers == ASSUME EchoInv, Answers PROVE EchoInv'
<1> DEFINE t == Tail(inbox)
           answer == [from |-> request.from, text |-> request.text,
                      count |-> CountChar(CountOf(sender))]
<1>1. /\ echoPc = "answer" /\ echoPc' = "receive" /\ inbox' = t
      /\ mail' = [c \in EchoClients |->
                     IF Open(c) /\ Port[c] = sender
                     THEN Append(mail[c], answer) ELSE mail[c]]
      /\ UNCHANGED <<command, list, cliPc, typed, heard, disturbed>>
  BY DEF Answers, clientVars, Open
<1>2. /\ inbox # <<>> /\ request.text # Exit /\ Known(sender) # {}
      /\ list \in Seq(Senders)
  BY <1>1 DEF EchoInv, ServerForm
<1>3. /\ inbox \in Seq(Requests) /\ request \in Requests /\ request = Head(inbox)
      /\ Port[request.from] = sender /\ sender \in Ports
  BY <1>2, HeadForm
<1>4. /\ t \in Seq(Requests)
      /\ \A p : /\ Ends(inbox, p) => Ends(t, p)
                /\ Exits(inbox, p) = {} <=> Exits(t, p) = {}
                /\ p # sender => (Lines(inbox, p) = {} <=> Lines(t, p) = {})
                /\ p = sender => Lines(inbox, p) # {}
                /\ p = sender /\ Ends(inbox, p) => Exits(t, p) # {}
                /\ \A r : Only(inbox, p, r) =>
                      /\ Only(t, p, r)
                      /\ p = sender => /\ request = r /\ Lines(t, p) = {}
                                       /\ Exits(t, p) = {}
      /\ \A c : Silent(inbox, c) => Silent(t, c)
  BY <1>2, <1>3, HeadTaken, OnlyBehind, TakenOff DEF Silent
<1>5. /\ CountOf(sender) \in Nat
      /\ \A n : Count(list, sender, n) => CountOf(sender) = n
  BY <1>2, CountGiven
<1>6. answer \in Echoes
  BY <1>3, <1>5, CountCharNat DEF Requests, Echoes
<1>7. Live /\ \A c \in EchoClients : /\ ~Counted(c)'
                                     /\ Counted(c) <=> Port[c] = sender
  BY <1>1 DEF Live, Counted
<1> HIDE DEF t
<1>8. ServerForm' /\ ClientForm'
  <2>1. mail' \in [EchoClients -> Seq(Echoes)]
    <3>1. \A c \in EchoClients : Append(mail[c], answer) \in Seq(Echoes)
      BY <1>6, AppendProperties DEF EchoInv, ClientForm
    <3> QED
      BY <1>1, <3>1 DEF EchoInv, ClientForm
  <2> QED
    BY <1>1, <1>4, <2>1 DEF EchoInv, ServerForm, ClientForm
<1>9. ASSUME NEW c \in EchoClients
      PROVE  /\ Open(c)' = Open(c)
             /\ ~Open(c) \/ Port[c] # sender => mail'[c] = mail[c]
             /\ Open(c) /\ Port[c] = sender => mail'[c] = Append(mail[c], answer)
  BY <1>1 DEF Open
<1> HIDE DEF answer
<1>10. ASSUME NEW c \in EchoClients PROVE Unheard(c)'
  BY <1>1, <1>4, <1>9 DEF EchoInv, Unheard, Open
<1>11. ASSUME NEW p \in Ports PROVE Rests(p)'
  BY <1>1, <1>4, <1>7, <1>9 DEF EchoInv, Rests
<1>12. ASSUME NEW c \in EchoClients \ disturbed PROVE Undisturbed(c)'
  <2> DEFINE p == Port[c]
  <2>1. Open(c) => /\ Only(inbox, p, ItsLine(c)) /\ Agrees(c)
                   /\ Lines(inbox, p) # {} => cliPc[c] = "wait" /\ mail[c] = <<>>
    BY <1>7 DEF EchoInv, Undisturbed, InStepWith
  <2>2. Open(c) => Alone(c)'
    BY <1>9 DEF EchoInv, Undisturbed, Alone
  <2>3. ItsLine(c)' = ItsLine(c) /\ ItsAnswer(c)' = ItsAnswer(c)
    BY <1>1 DEF ItsLine, ItsAnswer
  <2>4. CASE ~Open(c)
    BY <1>1, <1>9, <2>4 DEF EchoInv, Undisturbed, Hears, Open
  <2>5. CASE Open(c) /\ p # sender
    <3>1. Hears(c)'
      BY <1>1, <1>9, <2>3, <2>5 DEF EchoInv, Undisturbed, Hears
    <3>2. Agrees(c)'
      BY <1>1, <1>4, <1>7, <1>9, <2>1, <2>5 DEF Agrees
    <3> QED
      BY <1>1, <1>4, <1>9, <2>1, <2>2, <2>3, <2>5, <3>1, <3>2
         DEF Undisturbed, InStepWith
  <2>6. CASE Open(c) /\ p = sender
    <3>1. /\ request = ItsLine(c) /\ Lines(t, p) = {} /\ Exits(t, p) = {}
          /\ Exits(inbox, p) = {} /\ Lines(inbox, p) # {}
          /\ cliPc[c] = "wait" /\ mail[c] = <<>>
      BY <1>4, <2>1, <2>6
    <3>2. Count(list, p, typed[c])
      BY <1>7, <2>1, <2>6, <3>1 DEF Agrees
    <3>3. answer = ItsAnswer(c)
      BY <1>5, <2>6, <3>1, <3>2 DEF answer, ItsLine, ItsAnswer
    <3>4. mail'[c] = <<ItsAnswer(c)>>
      BY <1>9, <2>6, <3>1, <3>3
    <3>5. Hears(c)'
      BY <1>1, <2>3, <3>1, <3>4 DEF EchoInv, Undisturbed, Hears
    <3>6. Agrees(c)'
      BY <1>1, <1>7, <3>1, <3>2 DEF Agrees
    <3> QED
      BY <1>1, <1>4, <2>1, <2>2, <2>3, <2>6, <3>1, <3>5, <3>6
         DEF Undisturbed, InStepWith
  <2> QED
    BY <2>4, <2>5, <2>6
<1> QED
  BY <1>1, <1>8, <1>10, <1>11, <1>12 DEF EchoInv

LEMMA EchoServer == ASSUME EchoInv, EchoMain \/ Kills \/ Terminates PROVE EchoInv'
<1>1. CASE Listens
  <2>1. ServerForm'
    BY <1>1 DEF Listens, EchoInv, ServerForm, clientVars
  <2> QED
    BY <1>1, <2>1, EchoQuiet DEF Listens
<1>2. CASE SendFails \/ Kills \/ Terminates
  <2>1. /\ echoPc' \in {"pause", "stuck", "ended"}
        /\ list' = list \/ list' = <<>>
        /\ UNCHANGED <<clientVars, inbox, mail>>
    BY <1>2 DEF SendFails, Kills, Terminates
  <2>2. ServerForm' /\ ~Live'
    BY <2>1, EmptySeq DEF EchoInv, ServerForm, Live
  <2> QED
    BY <2>1, <2>2, EchoQuiet
<1> QED
  BY <1>1, <1>2, EchoHandles, EchoInserts, EchoAnswers DEF EchoMain

-----------------------------------------------------------------------------
(* Steps of the clients.                                                   *)

LEMMA EchoOpens ==
    ASSUME EchoInv, NEW c \in EchoClients, Opens(c) PROVE EchoInv'
<1>1. /\ cliPc[c] = "off" /\ cliPc' = [cliPc EXCEPT ![c] = "prompt"]
      /\ UNCHANGED <<echoPc, command, list, inbox, typed, mail, heard>>
      /\ disturbed' = IF Met(c) = {} THEN disturbed
                      ELSE disturbed \cup Met(c) \cup {c}
  BY DEF Opens, serverVars
<1>2. /\ cliPc'[c] = "prompt" /\ \A d \in EchoClients \ {c} : cliPc'[d] = cliPc[d]
      /\ cliPc' \in [EchoClients -> {"off", "prompt", "wait", "gone"}]
      /\ inbox \in Seq(Requests)
  BY <1>1 DEF EchoInv, ClientForm, ServerForm
<1>3. /\ typed[c] = 0 /\ heard[c] = <<>> /\ mail[c] = <<>> /\ Silent(inbox, c)
  BY <1>1 DEF EchoInv, Unheard
<1>4. /\ ServerForm' /\ ClientForm' /\ Live' = Live /\ \A d \in EchoClients : Unheard(d)'
  <2>1. disturbed' \subseteq EchoClients
    BY <1>1 DEF EchoInv, ClientForm, Met
  <2> QED
    BY <1>1, <1>2, <2>1
       DEF EchoInv, ServerForm, ClientForm, Unheard, Live, Known, request, sender
<1>5. /\ Open(c)' /\ ~Open(c)
      /\ \A d \in EchoClients \ {c} : Open(d)' = Open(d)
  BY <1>1, <1>2 DEF Open
<1>6. ASSUME NEW p \in Ports PROVE Rests(p)'
  BY <1>1, <1>4, <1>5 DEF EchoInv, Rests
<1>7. ASSUME NEW d \in EchoClients \ disturbed', d # c PROVE Undisturbed(d)'
  <2>1. d \notin disturbed /\ d \notin Met(c)
    BY <1>1, <1>7
  <2>2. Hears(d)'
    BY <1>1, <1>2, <1>7, <2>1 DEF EchoInv, Undisturbed, Hears, ItsAnswer
  <2>3. Open(d) => Alone(d)'
    BY <1>5, <1>7, <2>1 DEF EchoInv, Undisturbed, Alone, Met
  <2>4. Open(d) => InStepWith(d)'
    BY <1>1, <1>2, <1>4, <1>7, <2>1
       DEF EchoInv, Undisturbed, InStepWith, Agrees, Counted, ItsLine, sender,
           request
  <2> QED
    BY <1>5, <1>7, <2>2, <2>3, <2>4 DEF Undisturbed
<1>8. ASSUME c \notin disturbed' PROVE Undisturbed(c)'
  <2> DEFINE p == Port[c]
  <2>1. Met(c) = {} /\ c \notin disturbed
    BY <1>1, <1>8
  <2>2. \A d \in EchoClients \ {c} : Port[d] = p => ~Open(d) /\ ~Asks(d)
    BY <2>1 DEF Met
  <2>3. Alone(c)'
    BY <1>5, <2>2 DEF Alone
  <2>4. Hears(c)'
    <3>1. DOMAIN heard'[c] = {} /\ Len(heard'[c]) = 0
      BY <1>1, <1>3
    <3> QED
      BY <1>1, <1>2, <1>3, <3>1 DEF Hears
  <2>5. Lines(inbox, p) = {}
    <3> SUFFICES ASSUME NEW i \in Lines(inbox, p) PROVE FALSE
      OBVIOUS
    <3>1. i \in DOMAIN inbox /\ Port[inbox[i].from] = p /\ inbox[i].text # Exit
      BY DEF Lines
    <3>2. inbox[i] \in Requests
      <4>1. inbox \in [1..Len(inbox) -> Requests] /\ DOMAIN inbox = 1..Len(inbox)
        BY <1>2, LenProperties
      <4> QED
        BY <3>1, <4>1
    <3> QED
      BY <1>3, <2>2, <3>1, <3>2 DEF Silent, Asks, Requests
  <2>6. InStepWith(c)'
    <3> SUFFICES ASSUME Live PROVE Only(inbox, p, ItsLine(c)') /\ Agrees(c)'
      BY <1>1, <1>4, <2>5 DEF InStepWith
    <3>1. Only(inbox, p, ItsLine(c)')
      BY <2>5 DEF Only
    <3>2. p \in Ports /\ \A d \in EchoClients : Open(d) => Port[d] # p
      BY <1>5, <2>2 DEF Ports
    <3>3. Exits(inbox, p) = {} => Count(list, p, 0)
      BY <2>5, <3>2 DEF EchoInv, Rests
    <3> QED
      BY <1>1, <1>3, <2>5, <3>1, <3>3 DEF Agrees
  <2> QED
    BY <2>3, <2>4, <2>6 DEF Undisturbed
<1> QED
  BY <1>4, <1>6, <1>7, <1>8 DEF EchoInv

(* What a client sends reaches the server, unless nobody keeps it.         *)
LEMMA EchoSent ==
    ASSUME EchoInv, NEW c \in EchoClients, NEW text \in Nat, ToServer(c, text),
           Open(c), UNCHANGED <<echoPc, command, list>>
    PROVE  /\ ServerForm' /\ Live' = Live
           /\ \A d \in EchoClients : Silent(inbox, d) /\ d # c => Silent(inbox', d)
           /\ \A d \in EchoClients : Live => Counted(d)' = Counted(d)
           /\ \A p : Port[c] # p =>
                 /\ Lines(inbox', p) = Lines(inbox, p)
                 /\ Exits(inbox', p) = Exits(inbox, p)
                 /\ Ends(inbox, p) => Ends(inbox', p)
                 /\ \A r : Only(inbox, p, r) => Only(inbox', p, r)
           /\ echoPc = "start" => inbox' = <<>> /\ list = <<>>
           /\ Live /\ echoPc # "start" =>
                 inbox' = Append(inbox, [from |-> c, text |-> text])
<1> DEFINE e == [from |-> c, text |-> text]
<1>1. inbox \in Seq(Requests) /\ e \in Requests
  BY DEF EchoInv, ServerForm, Requests
<1>2. CASE echoPc \in {"start", "ended"}
  <2>1. UNCHANGED inbox
    BY <1>2 DEF ToServer
  <2> QED
    BY <1>2, <2>1
       DEF EchoInv, ServerForm, Live, Counted, request, sender, Known
<1>3. CASE echoPc \notin {"start", "ended"}
  <2>1. inbox' = Append(inbox, e)
    BY <1>3 DEF ToServer
  <2>2. /\ inbox' \in Seq(Requests) /\ inbox' # <<>>
        /\ inbox # <<>> => Head(inbox') = Head(inbox)
        /\ \A d : Silent(inbox, d) /\ d # c => Silent(inbox', d)
        /\ \A p : Port[c] # p =>
              /\ Lines(inbox', p) = Lines(inbox, p)
              /\ Exits(inbox', p) = Exits(inbox, p)
              /\ Ends(inbox, p) => Ends(inbox', p)
              /\ \A r : Only(inbox, p, r) => Only(inbox', p, r)
    BY <1>1, <2>1, Put
  <2>3. echoPc \in {"malloc", "answer"} => request' = request /\ sender' = sender
    BY <2>2 DEF EchoInv, ServerForm, request, sender
  <2>4. ServerForm'
    BY <1>3, <2>2, <2>3 DEF EchoInv, ServerForm, Known
  <2>5. Live' = Live /\ \A d \in EchoClients : Counted(d)' = Counted(d)
    BY <2>3 DEF Live, Counted
  <2> QED
    BY <1>3, <2>1, <2>2, <2>4, <2>5
<1> QED
  BY <1>2, <1>3

(* The others, when a client takes a step from where it has its port open. *)
LEMMA EchoOthers ==
    ASSUME EchoInv, NEW c \in EchoClients, Open(c),
           UNCHANGED <<list, disturbed>>, Live' = Live,
           \A d \in EchoClients : Live => Counted(d)' = Counted(d),
           \A p : Port[c] # p =>
              /\ Lines(inbox', p) = Lines(inbox, p)
              /\ Exits(inbox', p) = Exits(inbox, p)
              /\ Ends(inbox, p) => Ends(inbox', p)
              /\ \A r : Only(inbox, p, r) => Only(inbox', p, r),
           \A d \in EchoClients : Silent(inbox, d) /\ d # c => Silent(inbox', d),
           \A d \in EchoClients \ {c} :
              /\ cliPc'[d] = cliPc[d] /\ typed'[d] = typed[d]
              /\ mail'[d] = mail[d] /\ heard'[d] = heard[d],
           cliPc'[c] # "off"
    PROVE  /\ \A d \in EchoClients : Unheard(d)'
           /\ \A p \in Ports : p # Port[c] => Rests(p)'
           /\ \A d \in EchoClients \ disturbed : d # c => Undisturbed(d)'
           /\ c \notin disturbed => Alone(c)'
<1>1. \A d \in EchoClients : Unheard(d)'
  BY DEF EchoInv, Unheard
<1>2. \A d \in EchoClients \ {c} : Open(d)' = Open(d)
  BY DEF Open
<1>3. ASSUME NEW p \in Ports, p # Port[c] PROVE Rests(p)'
  BY <1>2, <1>3 DEF EchoInv, Rests
<1>4. ASSUME NEW d \in EchoClients \ disturbed, d # c PROVE Undisturbed(d)'
  <2>1. Hears(d)' = Hears(d) /\ ItsLine(d)' = ItsLine(d)
    BY <1>4 DEF Hears, ItsAnswer, ItsLine
  <2>2. Open(d) => Port[d] # Port[c]
    BY <1>4 DEF EchoInv, Undisturbed, Alone
  <2>3. Open(d) => Alone(d)'
    BY <1>2, <1>4, <2>2 DEF EchoInv, Undisturbed, Alone
  <2>4. Open(d) => InStepWith(d)'
    <3> SUFFICES ASSUME Open(d), Live PROVE InStepWith(d)'
      BY DEF InStepWith
    <3>1. /\ Lines(inbox', Port[d]) = Lines(inbox, Port[d])
          /\ Exits(inbox', Port[d]) = Exits(inbox, Port[d])
          /\ Only(inbox, Port[d], ItsLine(d)) => Only(inbox', Port[d], ItsLine(d))
      BY <2>2
    <3> QED
      BY <1>4, <2>1, <3>1 DEF EchoInv, Undisturbed, InStepWith, Agrees
  <2> QED
    BY <1>2, <1>4, <2>1, <2>3, <2>4 DEF EchoInv, Undisturbed
<1>5. c \notin disturbed => Alone(c)'
  BY <1>2 DEF EchoInv, Undisturbed, Alone
<1> QED
  BY <1>1, <1>3, <1>4, <1>5

LEMMA EchoSendsLine ==
    ASSUME EchoInv, NEW c \in EchoClients, SendsLine(c) PROVE EchoInv'
<1> DEFINE p == Port[c]
<1>1. /\ cliPc[c] = "prompt" /\ cliPc' = [cliPc EXCEPT ![c] = "wait"]
      /\ typed' = [typed EXCEPT ![c] = @ + 1] /\ ToServer(c, typed[c] + 1)
      /\ UNCHANGED <<echoPc, command, list, mail, heard, disturbed>>
  BY DEF SendsLine, serverVars
<1>2. typed[c] \in Nat /\ typed \in [EchoClients -> Nat]
      /\ cliPc \in [EchoClients -> {"off", "prompt", "wait", "gone"}]
  BY DEF EchoInv, ClientForm
<1>3. typed[c] + 1 \in Nat /\ typed[c] + 1 # 0
  BY <1>2
<1>4. /\ typed'[c] = typed[c] + 1 /\ cliPc'[c] = "wait"
      /\ \A d \in EchoClients \ {c} : typed'[d] = typed[d] /\ cliPc'[d] = cliPc[d]
  BY <1>1, <1>2
<1>5. /\ typed' \in [EchoClients -> Nat]
      /\ cliPc' \in [EchoClients -> {"off", "prompt", "wait", "gone"}]
  BY <1>1, <1>2, <1>3
<1>6. Open(c) /\ Open(c)' /\ p \in Ports
  BY <1>1, <1>4 DEF Open, Ports
<1> DEFINE n == typed[c] + 1
           r == [from |-> c, text |-> n]
<1> HIDE DEF n
<1>7. /\ ServerForm' /\ Live' = Live
      /\ \A d \in EchoClients : Silent(inbox, d) /\ d # c => Silent(inbox', d)
      /\ \A d \in EchoClients : Live => Counted(d)' = Counted(d)
      /\ \A q : Port[c] # q =>
            /\ Lines(inbox', q) = Lines(inbox, q)
            /\ Exits(inbox', q) = Exits(inbox, q)
            /\ Ends(inbox, q) => Ends(inbox', q)
            /\ \A x : Only(inbox, q, x) => Only(inbox', q, x)
      /\ echoPc = "start" => inbox' = <<>> /\ list = <<>>
      /\ Live /\ echoPc # "start" => inbox' = Append(inbox, r)
  BY <1>1, <1>3, <1>6, EchoSent DEF n
<1>8. /\ \A d \in EchoClients : Unheard(d)'
      /\ \A q \in Ports : q # Port[c] => Rests(q)'
      /\ \A d \in EchoClients \ disturbed : d # c => Undisturbed(d)'
      /\ c \notin disturbed => Alone(c)'
  BY <1>1, <1>4, <1>6, <1>7, EchoOthers
<1>9. ClientForm'
  BY <1>1, <1>5 DEF EchoInv, ClientForm
<1>10. Rests(p)'
  BY <1>6 DEF Rests
<1>11. ASSUME c \notin disturbed PROVE Undisturbed(c)'
  <2>1. /\ Hears(c) /\ typed[c] = Len(heard[c]) /\ mail[c] = <<>>
        /\ Live => /\ Only(inbox, p, ItsLine(c)) /\ Agrees(c)
                   /\ Lines(inbox, p) = {}
    BY <1>1, <1>6, <1>11 DEF EchoInv, Undisturbed, Hears, InStepWith
  <2>2. Hears(c)'
    <3>1. n = Len(heard[c]) + 1
      BY <2>1 DEF n
    <3> QED
      BY <1>1, <1>4, <2>1, <3>1 DEF Hears, n
  <2>3. ASSUME Live PROVE InStepWith(c)'
    <3>1. ItsLine(c)' = r
      BY <1>4 DEF ItsLine, n
    <3>2. CASE echoPc = "start"
      <4>1. Lines(inbox', p) = {} /\ DOMAIN inbox' = {}
        BY <1>7, <3>2 DEF Lines
      <4> QED
        BY <1>1, <1>4, <2>1, <4>1 DEF InStepWith, Agrees, Only
    <3>3. CASE echoPc # "start"
      <4>1. inbox \in Seq(Requests) /\ r \in Requests /\ r.from = c /\ r.text # Exit
        BY <1>3 DEF EchoInv, ServerForm, Requests, Exit, n
      <4>2. /\ Lines(inbox', p) # {} /\ Exits(inbox', p) = Exits(inbox, p)
            /\ Only(inbox', p, r)
        <5> HIDE DEF r
        <5>1. inbox' = Append(inbox, r) /\ Port[r.from] = p
          BY <1>7, <2>3, <3>3, <4>1
        <5> QED
          BY <2>1, <2>3, <4>1, <5>1, Put
      <4>3. ~Counted(c)'
        <5> SUFFICES ASSUME Counted(c) PROVE FALSE
          BY <1>7, <2>3
        <5>1. inbox # <<>> /\ request.text # Exit /\ sender = p
          BY DEF Counted, EchoInv, ServerForm
        <5> QED
          BY <2>1, <2>3, <5>1, HeadForm, HeadTaken
      <4>4. Agrees(c)'
        BY <1>1, <2>1, <2>3, <4>2, <4>3 DEF Agrees
      <4> QED
        BY <1>1, <1>4, <2>1, <3>1, <4>2, <4>4 DEF InStepWith
    <3> QED
      BY <3>2, <3>3
  <2> QED
    BY <1>7, <1>8, <1>11, <2>2, <2>3 DEF Undisturbed, InStepWith
<1> QED
  BY <1>1, <1>7, <1>8, <1>9, <1>10, <1>11 DEF EchoInv

LEMMA EchoReads ==
    ASSUME EchoInv, NEW c \in EchoClients, ReadsAnswer(c) PROVE EchoInv'
<1> DEFINE p == Port[c]
           h == Append(heard[c], Head(mail[c]))
<1>1. /\ cliPc[c] = "wait" /\ mail[c] # <<>>
      /\ cliPc' = [cliPc EXCEPT ![c] = "prompt"]
      /\ heard' = [heard EXCEPT ![c] = h]
      /\ mail' = [mail EXCEPT ![c] = Tail(@)]
      /\ UNCHANGED <<echoPc, command, list, inbox, typed, disturbed>>
  BY DEF ReadsAnswer, serverVars
<1>2. /\ mail \in [EchoClients -> Seq(Echoes)] /\ mail[c] \in Seq(Echoes)
      /\ heard \in [EchoClients -> Seq(Echoes)] /\ heard[c] \in Seq(Echoes)
      /\ cliPc \in [EchoClients -> {"off", "prompt", "wait", "gone"}]
  BY DEF EchoInv, ClientForm
<1>3. /\ Tail(mail[c]) \in Seq(Echoes) /\ h \in Seq(Echoes)
      /\ Head(mail[c]) \in Echoes
  BY <1>1, <1>2, HeadTailProperties, AppendProperties
<1> HIDE DEF h
<1>4. /\ cliPc'[c] = "prompt" /\ heard'[c] = h /\ mail'[c] = Tail(mail[c])
      /\ \A d \in EchoClients \ {c} :
            /\ cliPc'[d] = cliPc[d] /\ heard'[d] = heard[d]
            /\ mail'[d] = mail[d]
  BY <1>1, <1>2
<1>5. ClientForm'
  BY <1>1, <1>2, <1>3 DEF EchoInv, ClientForm
<1>6. Open(c) /\ Open(c)' /\ p \in Ports
  BY <1>1, <1>4 DEF Open, Ports
<1>7. ServerForm' /\ Live' = Live /\ \A d \in EchoClients : Counted(d)' = Counted(d)
  BY <1>1 DEF EchoInv, ServerForm, Live, Counted, request, sender, Known
<1>8. /\ \A d \in EchoClients : Unheard(d)'
      /\ \A q \in Ports : q # Port[c] => Rests(q)'
      /\ \A d \in EchoClients \ disturbed : d # c => Undisturbed(d)'
      /\ c \notin disturbed => Alone(c)'
  BY <1>1, <1>4, <1>6, <1>7, EchoOthers
<1>9. Rests(p)'
  BY <1>6 DEF Rests
<1>10. ASSUME c \notin disturbed PROVE Undisturbed(c)'
  <2>1. /\ Hears(c) /\ typed[c] = Len(heard[c]) + 1 /\ mail[c] = <<ItsAnswer(c)>>
        /\ Live => /\ Only(inbox, p, ItsLine(c)) /\ Agrees(c)
                   /\ Lines(inbox, p) = {}
    BY <1>1, <1>6, <1>10 DEF EchoInv, Undisturbed, Hears, InStepWith
  <2>2. Head(mail[c]) = ItsAnswer(c) /\ Tail(mail[c]) = <<>>
    BY <2>1
  <2>3. Hears(c)'
    <3> DEFINE n == typed[c]
    <3>1. /\ Len(h) = n /\ DOMAIN h = DOMAIN heard[c] \cup {n} /\ h[n] = ItsAnswer(c)
          /\ \A k \in DOMAIN heard[c] : h[k] = heard[c][k]
      <4>1. Len(h) = Len(heard[c]) + 1
        BY <1>2, <1>3, AppendProperties DEF h
      <4> QED
        BY <1>2, <1>3, <2>1, <2>2, <4>1, Appended DEF h
    <3> HIDE DEF n
    <3>2. h[n] = [from |-> c, text |-> n, count |-> CountChar(n)]
      BY <3>1 DEF ItsAnswer, n
    <3>3. \A k \in DOMAIN h :
              h[k] = [from |-> c, text |-> k, count |-> CountChar(k)]
      BY <2>1, <3>1, <3>2 DEF Hears
    <3> QED
      BY <1>1, <1>4, <2>2, <3>1, <3>3 DEF Hears, n
  <2>4. ASSUME Live PROVE InStepWith(c)'
    <3>1. Exits(inbox, p) = {} /\ Count(list, p, typed[c])
      BY <1>1, <2>1, <2>4 DEF Agrees
    <3>2. Agrees(c)'
      BY <1>1, <2>1, <2>4, <3>1 DEF Agrees
    <3> QED
      BY <1>1, <2>1, <2>4, <3>2 DEF InStepWith, ItsLine
  <2> QED
    BY <1>7, <1>8, <1>10, <2>3, <2>4 DEF Undisturbed, InStepWith
<1> QED
  BY <1>1, <1>5, <1>7, <1>8, <1>9, <1>10 DEF EchoInv

LEMMA EchoSendsExit ==
    ASSUME EchoInv, NEW c \in EchoClients, SendsExit(c) PROVE EchoInv'
<1> DEFINE p == Port[c]
           r == [from |-> c, text |-> Exit]
<1>1. /\ cliPc[c] = "prompt" /\ cliPc' = [cliPc EXCEPT ![c] = "gone"]
      /\ mail' = [mail EXCEPT ![c] = <<>>] /\ ToServer(c, Exit)
      /\ UNCHANGED <<echoPc, command, list, typed, heard, disturbed>>
  BY DEF SendsExit, serverVars
<1>2. /\ mail \in [EchoClients -> Seq(Echoes)]
      /\ cliPc \in [EchoClients -> {"off", "prompt", "wait", "gone"}]
  BY DEF EchoInv, ClientForm
<1>3. /\ cliPc'[c] = "gone"
      /\ \A d \in EchoClients \ {c} : mail'[d] = mail[d] /\ cliPc'[d] = cliPc[d]
  BY <1>1, <1>2
<1>4. ClientForm'
  BY <1>1, <1>2, EmptySeq DEF EchoInv, ClientForm
<1>5. Open(c) /\ ~Open(c)' /\ Exit \in Nat
  BY <1>1, <1>3 DEF Open, Exit
<1>6. /\ ServerForm' /\ Live' = Live
      /\ \A d \in EchoClients : Silent(inbox, d) /\ d # c => Silent(inbox', d)
      /\ \A d \in EchoClients : Live => Counted(d)' = Counted(d)
      /\ \A q : Port[c] # q =>
            /\ Lines(inbox', q) = Lines(inbox, q)
            /\ Exits(inbox', q) = Exits(inbox, q)
            /\ Ends(inbox, q) => Ends(inbox', q)
            /\ \A x : Only(inbox, q, x) => Only(inbox', q, x)
      /\ echoPc = "start" => inbox' = <<>> /\ list = <<>>
      /\ Live /\ echoPc # "start" => inbox' = Append(inbox, r)
  BY <1>1, <1>5, EchoSent
<1>7. /\ \A d \in EchoClients : Unheard(d)'
      /\ \A q \in Ports : q # Port[c] => Rests(q)'
      /\ \A d \in EchoClients \ disturbed : d # c => Undisturbed(d)'
  BY <1>1, <1>3, <1>5, <1>6, EchoOthers
<1>8. Rests(p)'
  <2> SUFFICES ASSUME Live
               PROVE  /\ Ends(inbox', p)
                      /\ Lines(inbox', p) = {} /\ Exits(inbox', p) = {} =>
                            Count(list, p, 0)
    BY <1>1, <1>6 DEF Rests
  <2>1. CASE echoPc = "start"
    <3>1. DOMAIN inbox' = {} /\ DOMAIN list = {}
      BY <1>6, <2>1
    <3> QED
      BY <3>1 DEF Ends, Lines, Count
  <2>2. CASE echoPc # "start"
    <3>1. inbox \in Seq(Requests) /\ r \in Requests /\ r.from = c /\ r.text = Exit
      BY <1>5 DEF EchoInv, ServerForm, Requests
    <3> HIDE DEF r
    <3>2. inbox' = Append(inbox, r) /\ Port[r.from] = p
      BY <1>6, <2>2, <3>1
    <3> QED
      BY <3>1, <3>2, Put
  <2> QED
    BY <2>1, <2>2
<1>9. c \notin disturbed => Undisturbed(c)'
  BY <1>1, <1>3, <1>5 DEF EchoInv, Undisturbed, Hears
<1> QED
  BY <1>1, <1>4, <1>6, <1>7, <1>8, <1>9 DEF EchoInv

LEMMA EchoStep == ASSUME EchoInv, [EchoNext]_echoVars PROVE EchoInv'
<1>1. CASE UNCHANGED echoVars
  <2>1. UNCHANGED <<serverVars, clientVars, inbox, mail>>
    BY <1>1 DEF echoVars
  <2>2. ServerForm'
    BY <2>1 DEF EchoInv, ServerForm, serverVars, Known, request, sender
  <2> QED
    BY <2>1, <2>2, EchoQuiet DEF serverVars
<1>2. ASSUME NEW c \in EchoClients, EchoClient(c) PROVE EchoInv'
  BY <1>2, EchoOpens, EchoSendsLine, EchoReads, EchoSendsExit DEF EchoClient
<1> QED
  BY <1>1, <1>2, EchoServer DEF EchoNext

(* A client that meets no other at its port is in step with the server,    *)
(* for any numbers of clients, ports and lines: however many have used the *)
(* port before it, they have left an !exit behind their last line, and it  *)
(* is handled before the first line of this one.  The count it shows is    *)
(* the char of its lines so far, a digit up to the ninth (client.c 50-66,  *)
(* server.c 66-107).                                                       *)
THEOREM AnswersInStepAlways == EchoSpec => []AnswersInStep
<1>1. EchoInv => AnswersInStep
  BY DEF EchoInv, Undisturbed, Hears, AnswersInStep
<1> QED
  BY <1>1, EchoStart, EchoStep, PTL DEF EchoSpec
=============================================================================
