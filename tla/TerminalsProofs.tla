---------------------------- MODULE TerminalsProofs ----------------------------
(***************************************************************************)
(* NothingLeft and NeighbourReads of the shell with pipelines, for lines   *)
(* of any length, any programs, and pipes of any size; CursorInSight of    *)
(* the file panels, for any tree and any height of the windows.            *)
(***************************************************************************)
EXTENDS Pipeline, Panels, SequenceTheorems, TLAPS

-----------------------------------------------------------------------------
(***************************************************************************)
(* The shell.                                                              *)
(***************************************************************************)

ProcState == {"none", "start", "close", "exec", "run", "exit", "ended"}

(* ends and proc are functions of the processes.                           *)
FormOK ==
    /\ line \in Lines \cup {<<>>} /\ next \in Nat
    /\ ends = [p \in {Shell} \cup Commands |-> ends[p]]
    /\ proc \in [Commands -> ProcState]

(* Which children there may be, and which ends the shell may hold, while   *)
(* it forks, closes and waits.                                             *)
Forked ==
    /\ stage \in {"prompt", "pipe"} =>
          ends[Shell] = {} /\ \A c \in Commands : proc[c] = "none"
    /\ stage = "pipe" => next = 1 /\ Count > 1
    /\ stage = "fork" =>
          /\ next \in 1..Count
          /\ ends[Shell] \subseteq AllEnds(Count)
          /\ \A c \in Commands : c >= next => proc[c] = "none"
    /\ stage = "close" =>
          /\ next = 1 /\ Count > 1
          /\ ends[Shell] \subseteq AllEnds(Count)
          /\ \A c \in Commands : c > Count => proc[c] = "none"
    /\ stage = "wait" =>
          /\ next \in 1..Count
          /\ ends[Shell] = {}
          /\ \A c \in Commands : c < next \/ c > Count => proc[c] = "none"

LeftInv == FormOK /\ Forked

(* A line has at most MaxCommands commands.                                *)
LEMMA LineLength ==
    ASSUME NEW l \in Lines \cup {<<>>}
    PROVE  Len(l) \in 0..MaxCommands /\ (l = <<>> <=> Len(l) = 0)
<1>1. CASE l = <<>>
  BY <1>1, PipelineAssumption
<1>2. CASE l \in Lines
  <2>1. PICK n \in 0..MaxCommands : l \in [1..n -> Kind]
    BY <1>2, PipelineAssumption
  <2>2. l \in Seq(Kind) /\ Len(l) = n
    BY <2>1, PipelineAssumption
  <2> QED
    BY <2>1, <2>2, PipelineAssumption, EmptySeq
<1> QED
  BY <1>1, <1>2

(* A single command needs no pipe.                                         *)
LEMMA NoEnds == AllEnds(1) = {}
  BY DEF AllEnds

LEMMA LeftInit == PipeInit => LeftInv
<1> SUFFICES ASSUME PipeInit PROVE LeftInv
  OBVIOUS
<1> QED
  BY DEF PipeInit, LeftInv, FormOK, Forked, ProcState

-----------------------------------------------------------------------------
(* The steps of the shell.                                                 *)

LEMMA LeftRead ==
    ASSUME LeftInv, NEW l \in Lines, ReadLine(l) PROVE LeftInv'
<1>1. FormOK'
  BY PipelineAssumption DEF ReadLine, LeftInv, FormOK
<1>2. line' = l /\ next' = 1 /\ UNCHANGED <<ends, proc>>
  BY DEF ReadLine
<1>3. ends[Shell] = {} /\ \A c \in Commands : proc[c] = "none"
  BY DEF ReadLine, LeftInv, Forked
<1>4. Len(l) \in Nat /\ (l = <<>> <=> Len(l) = 0)
  BY LineLength, PipelineAssumption
<1>5. \/ l = <<>> /\ stage' \in {"prompt", "done"}
      \/ Len(l) = 1 /\ stage' = "fork"
      \/ Len(l) > 1 /\ stage' = "pipe"
  BY <1>4 DEF ReadLine
<1> QED
  BY <1>1, <1>2, <1>3, <1>4, <1>5 DEF LeftInv, Forked, Count

LEMMA LeftPipes == ASSUME LeftInv, MakePipes PROVE LeftInv'
<1>1. FormOK' /\ Count' = Count
  BY DEF MakePipes, LeftInv, FormOK, Count
<1>2. ends'[Shell] = AllEnds(Count)
  BY DEF MakePipes, LeftInv, FormOK
<1>3. Count \in Nat
  BY LineLength, PipelineAssumption DEF LeftInv, FormOK, Count
<1>4. next = 1 /\ Count > 1 /\ \A c \in Commands : proc[c] = "none"
  BY DEF MakePipes, LeftInv, Forked
<1>5. stage' = "fork" /\ UNCHANGED <<next, proc>>
  BY DEF MakePipes
<1> QED
  BY <1>1, <1>2, <1>3, <1>4, <1>5 DEF LeftInv, Forked

LEMMA LeftFails == ASSUME LeftInv, Fails PROVE LeftInv'
  BY DEF Fails, LeftInv, FormOK, Forked, dataState

LEMMA LeftFork == ASSUME LeftInv, Fork PROVE LeftInv'
<1>1. Count \in 0..MaxCommands
  BY LineLength DEF LeftInv, FormOK, Count
<1>2. next \in 1..Count /\ next \in Commands
  BY <1>1, PipelineAssumption DEF Fork, LeftInv, Forked, Commands
<1>3. Count' = Count
  BY DEF Fork, Count
<1>4. FormOK'
  <2>1. line' \in Lines \cup {<<>>}
    BY DEF Fork, LeftInv, FormOK
  <2>2. next' \in Nat
    BY <1>1, <1>2, PipelineAssumption DEF Fork
  <2>3. ends' = [p \in {Shell} \cup Commands |-> ends'[p]]
    BY DEF Fork, LeftInv, FormOK
  <2>4. proc' \in [Commands -> ProcState]
    BY DEF Fork, LeftInv, FormOK, ProcState
  <2> QED
    BY <2>1, <2>2, <2>3, <2>4 DEF FormOK
<1>5. ends'[Shell] \subseteq AllEnds(Count)
  BY <1>2 DEF Fork, LeftInv, FormOK, Forked, Shell, Commands
<1>6. \A c \in Commands : c > next => proc'[c] = "none"
  BY <1>2 DEF Fork, LeftInv, FormOK, Forked, Commands
<1>7. CASE next < Count
  <2>1. stage' = "fork" /\ next' = next + 1 /\ next' \in 1..Count
    BY <1>1, <1>2, <1>7 DEF Fork
  <2>2. \A c \in Commands : c >= next' => proc'[c] = "none"
    BY <1>2, <1>6, <2>1 DEF Commands
  <2> QED
    BY <1>3, <1>4, <1>5, <2>1, <2>2 DEF LeftInv, Forked
<1>8. CASE next = Count /\ Count = 1
  <2>1. stage' = "wait" /\ next' = 1
    BY <1>8 DEF Fork
  <2>2. ends'[Shell] = {}
    BY <1>5, <1>8, NoEnds
  <2>3. \A c \in Commands : c < next' \/ c > Count => proc'[c] = "none"
    BY <1>6, <1>8, <2>1 DEF Commands
  <2> QED
    BY <1>3, <1>4, <1>8, <2>1, <2>2, <2>3 DEF LeftInv, Forked
<1>9. CASE next = Count /\ Count > 1
  <2>1. stage' = "close" /\ next' = 1
    BY <1>1, <1>9 DEF Fork
  <2>2. \A c \in Commands : c > Count => proc'[c] = "none"
    BY <1>6, <1>9
  <2> QED
    BY <1>3, <1>4, <1>5, <1>9, <2>1, <2>2 DEF LeftInv, Forked
<1> QED
  BY <1>1, <1>2, <1>7, <1>8, <1>9

LEMMA LeftClose == ASSUME LeftInv, CloseRest PROVE LeftInv'
<1>1. FormOK' /\ Count' = Count
  BY DEF CloseRest, LeftInv, FormOK, Count
<1>2. ends'[Shell] = {}
  BY DEF CloseRest, LeftInv, FormOK, Forked
<1>3. Count \in Nat
  BY LineLength, PipelineAssumption DEF LeftInv, FormOK, Count
<1> QED
  BY <1>1, <1>2, <1>3 DEF CloseRest, LeftInv, Forked, Commands

LEMMA LeftWait == ASSUME LeftInv, Wait PROVE LeftInv'
<1>1. Count \in 0..MaxCommands /\ Count' = Count
  BY LineLength DEF Wait, LeftInv, FormOK, Count
<1>2. next \in 1..Count /\ next \in Commands
  BY <1>1, PipelineAssumption DEF Wait, LeftInv, Forked, Commands
<1>3. FormOK'
  BY <1>2 DEF Wait, LeftInv, FormOK, ProcState
<1>4. \A c \in Commands : c <= next \/ c > Count => proc'[c] = "none"
  BY <1>2 DEF Wait, LeftInv, FormOK, Forked, Commands
<1> QED
  BY <1>1, <1>2, <1>3, <1>4 DEF Wait, LeftInv, Forked, Commands

-----------------------------------------------------------------------------
(* A step of a child does not touch the ends of the shell, and there is a  *)
(* child before it.                                                        *)
LEMMA ChildAlone ==
    ASSUME FormOK, NEW c \in Commands, Child(c)
    PROVE  /\ UNCHANGED shellState
           /\ proc[c] # "none"
           /\ proc' \in [Commands -> ProcState]
           /\ \A d \in Commands \ {c} : proc'[d] = proc[d]
           /\ ends' = [p \in {Shell} \cup Commands |-> ends'[p]]
           /\ ends'[Shell] = ends[Shell]
<1>0. c # Shell /\ proc \in [Commands -> ProcState]
  BY DEF Commands, Shell, FormOK
<1>1. CASE Redirect(c)
  BY <1>0, <1>1 DEF Redirect, FormOK, ProcState
<1>2. CASE CloseAll(c)
  BY <1>0, <1>2 DEF CloseAll, FormOK, ProcState
<1>3. CASE Exec(c)
  BY <1>0, <1>3 DEF Exec, FormOK, ProcState
<1>4. CASE WriteItem(c)
  BY <1>0, <1>4 DEF WriteItem, HasMore, Exits, FormOK, ProcState
<1>5. CASE ReadItem(c)
  BY <1>0, <1>5 DEF ReadItem, Reads, FormOK, ProcState
<1>6. CASE Finish(c)
  BY <1>0, <1>6 DEF Finish, Reads, Exits, FormOK, ProcState
<1> QED
  BY <1>1, <1>2, <1>3, <1>4, <1>5, <1>6 DEF Child

LEMMA LeftChild ==
    ASSUME LeftInv, NEW c \in Commands, Child(c) PROVE LeftInv'
<1>1. FormOK
  BY DEF LeftInv
<1>2. FormOK'
  BY <1>1, ChildAlone DEF FormOK, shellState
<1>3. \A d \in Commands : proc[d] = "none" => proc'[d] = "none"
  BY <1>1, ChildAlone
<1>4. UNCHANGED <<stage, next, line>> /\ ends'[Shell] = ends[Shell]
  BY <1>1, ChildAlone DEF shellState
<1> QED
  BY <1>2, <1>3, <1>4 DEF LeftInv, Forked, Count

LEMMA LeftStep == ASSUME LeftInv, [PipeNext]_pipeVars PROVE LeftInv'
<1>1. CASE Leave
  BY <1>1 DEF Leave, LeftInv, FormOK, Forked
<1>2. ASSUME NEW l \in Lines, ReadLine(l) PROVE LeftInv'
  BY <1>2, LeftRead
<1>3. CASE ShellGoesOn
  BY <1>3, LeftPipes, LeftFails, LeftFork, LeftClose, LeftWait DEF ShellGoesOn
<1>4. ASSUME NEW c \in Commands, Child(c) PROVE LeftInv'
  BY <1>4, LeftChild
<1>5. CASE UNCHANGED pipeVars
  BY <1>5 DEF pipeVars, shellState, LeftInv, FormOK, Forked, Count
<1> QED
  BY <1>1, <1>2, <1>3, <1>4, <1>5 DEF PipeNext

(* The shell is back at its prompt only when it holds no end of a pipe and *)
(* has waited for every child (main.c 167-226), however many commands the  *)
(* line had and whatever they did.                                         *)
THEOREM NothingLeftEver == PipeSpec => []NothingLeft
<1>1. LeftInv => NothingLeft
  BY DEF LeftInv, Forked, NothingLeft
<1> QED
  BY <1>1, LeftInit, LeftStep, PTL DEF PipeSpec

-----------------------------------------------------------------------------
(* NeighbourReads.                                                         *)

(* The rest of the types.                                                  *)
DataForm ==
    /\ std \in [Commands -> [in : Nat, out : Nat]]
    /\ hand \in [Commands -> Nat]
    /\ pipe \in [Pipes -> Seq(Nat)]
    /\ wrote \in [Commands -> Nat] /\ received \in [Commands -> Seq(Nat)]

(* What is behind stdin and stdout of a child, before it has redirected    *)
(* them and until it ends; who has still to do so holds the end it will    *)
(* write to, because the shell does, up to the fork.                       *)
Wires(c) ==
    [in |-> IF c > 1 THEN c - 1 ELSE 0, out |-> IF c < Count THEN c ELSE 0]

Wired ==
    /\ \A c \in Commands :
          /\ proc[c] # "none" => c <= Count
          /\ std[c] = IF proc[c] \in {"none", "start", "ended"} THEN NoPipes
                      ELSE Wires(c)
          /\ proc[c] = "start" /\ c < Count => <<c, "w">> \in ends[c]
          /\ proc[c] = "exit" => line[c] = "missing"
    /\ stage = "fork" => \A i \in next..(Count - 1) : <<i, "w">> \in ends[Shell]

(* Whose text is where.                                                    *)
From(t, c) == t = c \/ (~tty /\ t = Prompt)

Tagged ==
    /\ \A c \in Commands : hand[c] = 0 \/ From(hand[c], c)
    /\ \A i \in Pipes : \A k \in DOMAIN pipe[i] : From(pipe[i][k], i)
    /\ \A c \in Commands : \A k \in DOMAIN received[c] : From(received[c][k], c - 1)

UnderWay ==
    stage \in {"fork", "close", "wait"} \/ \E c \in Commands : proc[c] # "none"

(* Nothing is lost in a pipe, and a last filter has ended only after its   *)
(* neighbour, with nothing left to read.                                   *)
Balanced ==
    /\ stage = "pipe" =>
          \A c \in Commands : wrote[c] = 0 /\ received[c] = <<>>
    /\ UnderWay =>
          \A i \in Pipes : i < Count /\ line[i] # "yes" =>
              wrote[i] = Len(pipe[i]) + Len(received[i + 1])

EndedAfter ==
    \A c \in Commands :
        proc[c] = "ended" /\ c > 1 /\ c = Count /\ line[c] = "filter" =>
            proc[c - 1] \in {"none", "ended"} /\ pipe[c - 1] = <<>>

ReadInv == LeftInv /\ DataForm /\ Wired /\ Tagged /\ Balanced /\ EndedAfter

LEMMA CountType ==
    ASSUME FormOK
    PROVE  Count \in Nat /\ Count <= MaxCommands /\ MaxCommands \in Nat
  BY LineLength, PipelineAssumption DEF FormOK, Count

(* An item more in a pipe, and an item from a pipe to its reader.          *)
LEMMA OneIn ==
    ASSUME NEW p \in Nat, NEW r \in Nat PROVE (p + r) + 1 = (p + 1) + r
  OBVIOUS

LEMMA OneOver ==
    ASSUME NEW p \in Nat, NEW r \in Nat PROVE p + r = (p - 1) + (r + 1)
  OBVIOUS

LEMMA CommandForm ==
    ASSUME NEW c \in Commands
    PROVE  c \in Nat /\ c # Shell /\ (c > 1 => c - 1 \in Commands /\ c - 1 < c)
  BY PipelineAssumption DEF Commands, Shell

LEMMA ReadStart == PipeInit => ReadInv
<1> SUFFICES ASSUME PipeInit PROVE ReadInv
  OBVIOUS
<1>1. LeftInv
  BY LeftInit
<1>2. DataForm
  BY EmptySeq DEF PipeInit, DataForm, NoPipes
<1>3. Wired
  BY DEF PipeInit, Wired
<1>4. Tagged /\ EndedAfter
  BY DEF PipeInit, Tagged, EndedAfter
<1>5. Balanced
  BY DEF PipeInit, Balanced, UnderWay
<1> QED
  BY <1>1, <1>2, <1>3, <1>4, <1>5 DEF ReadInv

(* The steps of the shell.                                                 *)

LEMMA ReadLeave == ASSUME ReadInv, Leave PROVE ReadInv'
<1>1. LeftInv'
  BY LeftStep DEF ReadInv, PipeNext
<1>2. stage = "prompt" /\ stage' = "done"
      /\ UNCHANGED <<tty, line, ends, std, proc, hand, pipe, wrote, received>>
  BY DEF Leave, dataState
<1>3. \A c \in Commands : proc[c] = "none"
  BY <1>2 DEF ReadInv, LeftInv, Forked
<1>4. DataForm' /\ Wired' /\ Tagged' /\ EndedAfter'
  BY <1>2 DEF ReadInv, DataForm, Wired, Wires, Count, Tagged, From, EndedAfter
<1>5. Balanced'
  BY <1>2, <1>3 DEF Balanced, UnderWay
<1> QED
  BY <1>1, <1>4, <1>5 DEF ReadInv

LEMMA ReadReadLine ==
    ASSUME ReadInv, NEW l \in Lines, ReadLine(l) PROVE ReadInv'
<1>1. LeftInv'
  BY LeftRead DEF ReadInv
<1>2. /\ stage = "prompt" /\ line' = l /\ next' = 1
      /\ wrote' = [c \in Commands |-> 0] /\ received' = [c \in Commands |-> <<>>]
      /\ UNCHANGED <<tty, ends, std, proc, hand, pipe>>
  BY DEF ReadLine
<1>3. \A c \in Commands : proc[c] = "none"
  BY <1>2 DEF ReadInv, LeftInv, Forked
<1>4. stage' = "fork" => Count' = 1
  BY <1>1, <1>2 DEF ReadLine, Count
<1>5. stage' \in {"prompt", "done", "pipe", "fork"}
  BY DEF ReadLine
<1>6. DataForm'
  BY <1>2, EmptySeq DEF ReadInv, DataForm
<1>7. Wired'
  <2>1. \A c \in Commands : std[c] = NoPipes
    BY <1>3 DEF ReadInv, Wired
  <2>2. stage' = "fork" => next'..(Count' - 1) = {}
    BY <1>2, <1>4
  <2> QED
    BY <1>2, <1>3, <2>1, <2>2 DEF Wired
<1>8. Tagged'
  BY <1>2 DEF ReadInv, Tagged, From
<1>9. Balanced'
  <2>1. UnderWay' => stage' = "fork"
    BY <1>2, <1>3, <1>5 DEF UnderWay
  <2>2. stage' = "fork" => \A i \in Pipes : ~(i < Count')
    BY <1>4 DEF Pipes
  <2>3. \A c \in Commands : wrote'[c] = 0 /\ received'[c] = <<>>
    BY <1>2
  <2> QED
    BY <2>1, <2>2, <2>3 DEF Balanced
<1>10. EndedAfter'
  BY <1>2, <1>3 DEF EndedAfter
<1> QED
  BY <1>1, <1>6, <1>7, <1>8, <1>9, <1>10 DEF ReadInv

LEMMA ReadPipes == ASSUME ReadInv, MakePipes PROVE ReadInv'
<1>1. LeftInv'
  BY LeftPipes DEF ReadInv
<1>2. /\ stage = "pipe" /\ stage' = "fork"
      /\ pipe' = [i \in Pipes |-> <<>>]
      /\ ends' = [ends EXCEPT ![Shell] = AllEnds(Count)]
      /\ UNCHANGED <<tty, line, next, std, proc, hand, wrote, received>>
  BY DEF MakePipes
<1>3. next = 1 /\ \A c \in Commands : proc[c] = "none"
  BY <1>2 DEF ReadInv, LeftInv, Forked
<1>4. \A c \in Commands : wrote[c] = 0 /\ received[c] = <<>>
  BY <1>2 DEF ReadInv, Balanced
<1>5. Count' = Count
  BY <1>2 DEF Count
<1>6. DataForm'
  BY <1>2, EmptySeq DEF ReadInv, DataForm
<1>7. Wired'
  <2>1. \A c \in Commands : std[c] = NoPipes
    BY <1>3 DEF ReadInv, Wired
  <2>2. ends'[Shell] = AllEnds(Count)
    BY <1>2 DEF ReadInv, LeftInv, FormOK
  <2>3. \A i \in 1..(Count - 1) : <<i, "w">> \in AllEnds(Count)
    BY DEF AllEnds
  <2> QED
    BY <1>2, <1>3, <1>5, <2>1, <2>2, <2>3 DEF Wired
<1>8. Tagged'
  BY <1>2 DEF ReadInv, Tagged, From
<1>9. Balanced'
  <2> SUFFICES ASSUME NEW i \in Pipes
               PROVE  wrote'[i] = Len(pipe'[i]) + Len(received'[i + 1])
    BY <1>2 DEF Balanced
  <2>1. i \in Commands /\ i + 1 \in Commands
    BY PipelineAssumption DEF Pipes, Commands
  <2> QED
    BY <1>2, <1>4, <2>1
<1>10. EndedAfter'
  BY <1>2, <1>3 DEF EndedAfter
<1> QED
  BY <1>1, <1>6, <1>7, <1>8, <1>9, <1>10 DEF ReadInv

LEMMA ReadFails == ASSUME ReadInv, Fails PROVE ReadInv'
<1>1. LeftInv'
  BY LeftFails DEF ReadInv
<1>2. /\ stage \in {"pipe", "fork"} /\ stage' = "done"
      /\ \A c \in Commands : ends'[c] = ends[c]
      /\ UNCHANGED <<tty, line, std, proc, hand, pipe, wrote, received>>
  BY DEF Fails, dataState, ReadInv, LeftInv, FormOK, Commands, Shell
<1>3. UnderWay' => UnderWay
  BY <1>2 DEF UnderWay
<1>4. Count' = Count
  BY <1>2 DEF Count
<1>5. DataForm' /\ Wired' /\ Tagged' /\ EndedAfter'
  BY <1>2, <1>4 DEF ReadInv, DataForm, Wired, Wires, Tagged, From, EndedAfter
<1>6. Balanced'
  BY <1>2, <1>3, <1>4 DEF ReadInv, Balanced
<1> QED
  BY <1>1, <1>5, <1>6 DEF ReadInv

LEMMA ReadFork == ASSUME ReadInv, Fork PROVE ReadInv'
<1>1. LeftInv'
  BY LeftFork DEF ReadInv
<1>2. /\ Count \in Nat /\ Count <= MaxCommands /\ MaxCommands \in Nat
      /\ next \in 1..Count /\ next \in Commands
  BY CountType, PipelineAssumption DEF Fork, ReadInv, LeftInv, Forked, Commands
<1>3. Count' = Count /\ UNCHANGED <<tty, line, std, hand, pipe, wrote, received>>
  BY DEF Fork, Count, dataState
<1>4. stage = "fork" /\ \A c \in Commands : c >= next => proc[c] = "none"
  BY DEF Fork, ReadInv, LeftInv, Forked
<1>5. /\ proc'[next] = IF Count = 1 THEN "exec" ELSE "start"
      /\ \A c \in Commands \ {next} : proc'[c] = proc[c] /\ ends'[c] = ends[c]
      /\ ends'[next] = ends[Shell]
      /\ ends'[Shell] = ends[Shell] \ {<<next - 1, "r">>, <<next, "w">>}
  <2>1. next # Shell /\ \A c \in Commands : c # Shell
    BY <1>2, CommandForm
  <2>2. proc' = [proc EXCEPT ![next] = IF Count = 1 THEN "exec" ELSE "start"]
        /\ proc \in [Commands -> ProcState]
    BY DEF Fork, ReadInv, LeftInv, FormOK
  <2>3. ends' = [ends EXCEPT
            ![next] = ends[Shell],
            ![Shell] = ends[Shell] \ {<<next - 1, "r">>, <<next, "w">>}]
        /\ DOMAIN ends = {Shell} \cup Commands
    <3>1. DOMAIN ends = {Shell} \cup Commands
      BY DEF ReadInv, LeftInv, FormOK
    <3> QED
      BY <2>1, <3>1 DEF Fork
  <2>4. \A c \in Commands \ {next} : proc'[c] = proc[c]
    BY <2>2
  <2>5. \A c \in Commands \ {next} : ends'[c] = ends[c]
    BY <2>1, <2>3
  <2>6. proc'[next] = IF Count = 1 THEN "exec" ELSE "start"
    BY <1>2, <2>2
  <2> QED
    BY <1>2, <2>1, <2>3, <2>4, <2>5, <2>6
<1>6. DataForm' /\ Tagged'
  BY <1>3 DEF ReadInv, DataForm, Tagged, From
<1>7. Wired'
  <2>1. ASSUME NEW c \in Commands, c # next
        PROVE  /\ proc'[c] # "none" => c <= Count
               /\ std'[c] = IF proc'[c] \in {"none", "start", "ended"} THEN NoPipes
                            ELSE Wires(c)
               /\ proc'[c] = "start" /\ c < Count => <<c, "w">> \in ends'[c]
               /\ proc'[c] = "exit" => line[c] = "missing"
    BY <1>3, <1>5, <2>1 DEF ReadInv, Wired
  <2>2. /\ next <= Count
        /\ std'[next] = IF proc'[next] \in {"none", "start", "ended"} THEN NoPipes
                        ELSE Wires(next)
        /\ next < Count => <<next, "w">> \in ends'[next]
        /\ proc'[next] # "exit"
    <3>1. std'[next] = NoPipes
      <4>1. proc[next] = "none"
        BY <1>2, <1>4
      <4> QED
        BY <1>2, <1>3, <4>1 DEF ReadInv, Wired
    <3>2. Count = 1 => Wires(next) = NoPipes
      BY <1>2 DEF Wires, NoPipes
    <3>3. next < Count => <<next, "w">> \in ends[Shell]
      BY <1>2, <1>4 DEF ReadInv, Wired
    <3> QED
      BY <1>2, <1>5, <3>1, <3>2, <3>3
  <2>3. stage' = "fork" => \A i \in next'..(Count - 1) : <<i, "w">> \in ends'[Shell]
    <3> SUFFICES ASSUME stage' = "fork", NEW i \in next'..(Count - 1)
                 PROVE  <<i, "w">> \in ends'[Shell]
      OBVIOUS
    <3>1. next' = next + 1
      BY <1>2 DEF Fork
    <3>2. i \in next..(Count - 1) /\ i # next
      BY <1>2, <3>1
    <3>3. <<i, "w">> \in ends[Shell]
      BY <1>4, <3>2 DEF ReadInv, Wired
    <3> QED
      BY <1>5, <3>2, <3>3
  <2>4. \A c \in Commands : Wires(c)' = Wires(c)
    BY <1>3 DEF Wires
  <2> QED
    BY <1>2, <1>3, <2>1, <2>2, <2>3, <2>4 DEF Wired
<1>8. Balanced'
  <2>1. stage' # "pipe" /\ UnderWay
    BY <1>4 DEF Fork, UnderWay
  <2> QED
    BY <1>3, <2>1 DEF ReadInv, Balanced
<1>9. EndedAfter'
  <2> SUFFICES ASSUME NEW c \in Commands, proc'[c] = "ended", c > 1, c = Count,
                      line[c] = "filter"
               PROVE  proc'[c - 1] \in {"none", "ended"} /\ pipe'[c - 1] = <<>>
    BY <1>3 DEF EndedAfter
  <2>1. c # next /\ proc[c] = "ended"
    BY <1>5
  <2>2. c < next
    BY <1>2, <1>4, <2>1 DEF Commands
  <2> QED
    BY <1>2, <2>2
<1> QED
  BY <1>1, <1>6, <1>7, <1>8, <1>9 DEF ReadInv

LEMMA ReadClose == ASSUME ReadInv, CloseRest PROVE ReadInv'
<1>1. LeftInv'
  BY LeftClose DEF ReadInv
<1>2. /\ stage = "close" /\ stage' = "wait"
      /\ \A c \in Commands : ends'[c] = ends[c]
      /\ UNCHANGED <<tty, line, std, proc, hand, pipe, wrote, received>>
  BY DEF CloseRest, dataState, ReadInv, LeftInv, FormOK, Commands, Shell
<1>3. UnderWay
  BY <1>2 DEF UnderWay
<1>4. Count' = Count
  BY <1>2 DEF Count
<1>5. DataForm' /\ Wired' /\ Tagged' /\ EndedAfter'
  BY <1>2, <1>4 DEF ReadInv, DataForm, Wired, Wires, Tagged, From, EndedAfter
<1>6. Balanced'
  BY <1>2, <1>3, <1>4 DEF ReadInv, Balanced
<1> QED
  BY <1>1, <1>5, <1>6 DEF ReadInv

LEMMA ReadWait == ASSUME ReadInv, Wait PROVE ReadInv'
<1>1. LeftInv'
  BY LeftWait DEF ReadInv
<1>2. /\ Count \in Nat /\ Count <= MaxCommands
      /\ next \in 1..Count /\ next \in Commands
  BY CountType, PipelineAssumption DEF Wait, ReadInv, LeftInv, Forked, Commands
<1>3. /\ stage = "wait" /\ stage' \in {"prompt", "wait"} /\ Count' = Count
      /\ UNCHANGED <<tty, line, ends, std, hand, pipe, wrote, received>>
  BY DEF Wait, Count, dataState
<1>4. /\ proc[next] = "ended" /\ proc'[next] = "none"
      /\ \A c \in Commands \ {next} : proc'[c] = proc[c]
  BY <1>2 DEF Wait, ReadInv, LeftInv, FormOK
<1>5. DataForm' /\ Tagged'
  BY <1>3 DEF ReadInv, DataForm, Tagged, From
<1>6. Wired'
  BY <1>2, <1>3, <1>4 DEF ReadInv, Wired, Wires
<1>7. Balanced'
  <2>1. stage' # "pipe" /\ UnderWay
    BY <1>3 DEF UnderWay
  <2> QED
    BY <1>3, <2>1 DEF ReadInv, Balanced
<1>8. EndedAfter'
  <2> SUFFICES ASSUME NEW c \in Commands, proc'[c] = "ended", c > 1, c = Count,
                      line[c] = "filter"
               PROVE  proc'[c - 1] \in {"none", "ended"} /\ pipe'[c - 1] = <<>>
    BY <1>3 DEF EndedAfter
  <2>1. proc[c] = "ended"
    BY <1>4
  <2>2. proc[c - 1] \in {"none", "ended"} /\ pipe[c - 1] = <<>>
    BY <2>1 DEF ReadInv, EndedAfter
  <2>3. c - 1 \in Commands
    BY CommandForm
  <2> QED
    BY <1>3, <1>4, <2>2, <2>3
<1> QED
  BY <1>1, <1>5, <1>6, <1>7, <1>8 DEF ReadInv

-----------------------------------------------------------------------------
(* The steps of a child.                                                   *)

LEMMA ChildWires ==
    ASSUME ReadInv, NEW c \in Commands, proc[c] \in {"close", "exec", "run", "exit"}
    PROVE  /\ c \in 1..Count /\ Count \in Nat
           /\ c = Count => std[c].out = 0
           /\ std[c].out # 0 => std[c].out = c /\ c \in Pipes /\ c < Count
           /\ c > 1 => std[c].in = c - 1
           /\ std[c].in # 0 => std[c].in = c - 1 /\ c - 1 \in Pipes /\ c > 1
<1>1. Count \in Nat /\ Count <= MaxCommands /\ MaxCommands \in Nat
  BY CountType DEF ReadInv, LeftInv
<1>2. std[c] = Wires(c) /\ c <= Count
  BY DEF ReadInv, Wired
<1>3. /\ std[c].in = IF c > 1 THEN c - 1 ELSE 0
      /\ std[c].out = IF c < Count THEN c ELSE 0
  BY <1>2 DEF Wires
<1> QED
  BY <1>1, <1>2, <1>3 DEF Commands, Pipes

(* A child that goes from one state to the next, and no other child.       *)
LEMMA WiredChild ==
    ASSUME ReadInv, NEW c \in Commands, NEW x, NEW y,
           UNCHANGED shellState, proc[c] # "none",
           proc' = [proc EXCEPT ![c] = x], std' = [std EXCEPT ![c] = y],
           ends'[Shell] = ends[Shell], \A d \in Commands \ {c} : ends'[d] = ends[d],
           \/ x = "ended" /\ y = NoPipes
           \/ x \in {"close", "exec", "run", "exit"} /\ y = Wires(c),
           x = "exit" => line[c] = "missing"
    PROVE  Wired'
<1>1. Count' = Count /\ UNCHANGED <<stage, next, line>>
  BY DEF shellState, Count
<1>2. proc'[c] = x /\ std'[c] = y /\ c <= Count
  BY DEF ReadInv, LeftInv, FormOK, DataForm, Wired
<1>3. \A d \in Commands \ {c} : proc'[d] = proc[d] /\ std'[d] = std[d]
  BY DEF ReadInv, LeftInv, FormOK, DataForm
<1>4. \A d \in Commands : Wires(d)' = Wires(d)
  BY <1>1 DEF Wires
<1> QED
  BY <1>1, <1>2, <1>3, <1>4 DEF ReadInv, Wired

LEMMA EndedChild ==
    ASSUME ReadInv, NEW c \in Commands, NEW x,
           UNCHANGED shellState, proc[c] \notin {"none", "ended"},
           proc' = [proc EXCEPT ![c] = x],
           \A i \in Pipes \ {c - 1, c} : pipe'[i] = pipe[i],
           x = "ended" /\ c > 1 /\ c = Count /\ line[c] = "filter" =>
              proc[c - 1] \in {"none", "ended"} /\ pipe'[c - 1] = <<>>
    PROVE  EndedAfter'
<1> SUFFICES ASSUME NEW d \in Commands, proc'[d] = "ended", d > 1, d = Count,
                    line[d] = "filter"
             PROVE  proc'[d - 1] \in {"none", "ended"} /\ pipe'[d - 1] = <<>>
  BY DEF EndedAfter, shellState, Count
<1>1. d - 1 \in Commands /\ d - 1 \in Pipes /\ c \in Nat /\ d \in Nat
  BY PipelineAssumption DEF Commands, Pipes
<1>2. proc'[c] = x /\ \A e \in Commands \ {c} : proc'[e] = proc[e]
  BY DEF ReadInv, LeftInv, FormOK
<1>3. CASE d = c
  BY <1>1, <1>2, <1>3
<1>4. CASE d # c
  <2>1. proc[d - 1] \in {"none", "ended"} /\ pipe[d - 1] = <<>>
    BY <1>2, <1>4 DEF ReadInv, EndedAfter
  <2>2. d - 1 # c /\ d - 1 # c - 1
    BY <1>1, <1>4, <2>1
  <2> QED
    BY <1>1, <1>2, <2>1, <2>2
<1> QED
  BY <1>3, <1>4

(* A child that touches no data.                                           *)
LEMMA ReadOnItsWay ==
    ASSUME ReadInv, NEW c \in Commands,
           \/ Redirect(c) \/ CloseAll(c)
           \/ Exec(c)
    PROVE  ReadInv'
<1>1. LeftInv'
  BY LeftChild DEF ReadInv, Child
<1>2. c # Shell /\ Count \in Nat
  BY CountType DEF Commands, Shell, ReadInv, LeftInv
<1>3. /\ UNCHANGED <<shellState, pipe, wrote, received>>
      /\ proc[c] \in {"start", "close", "exec"}
      /\ ends'[Shell] = ends[Shell] /\ \A d \in Commands \ {c} : ends'[d] = ends[d]
  BY <1>2 DEF Redirect, CloseAll, Exec, dataState, ReadInv, LeftInv, FormOK
<1>4. PICK x \in {"close", "exec", "run", "exit"} :
         /\ proc' = [proc EXCEPT ![c] = x] /\ std' = [std EXCEPT ![c] = Wires(c)]
         /\ x = "exit" => line[c] = "missing"
  <2>1. CASE Redirect(c)
    BY <2>1 DEF Redirect, Wires
  <2>2. CASE CloseAll(c) \/ Exec(c)
    <3>1. std[c] = Wires(c) /\ UNCHANGED std
      BY <2>2 DEF CloseAll, Exec, ReadInv, Wired
    <3>2. std' = [std EXCEPT ![c] = Wires(c)]
      BY <3>1 DEF ReadInv, DataForm
    <3> QED
      BY <2>2, <3>2 DEF CloseAll, Exec
  <2> QED
    BY <2>1, <2>2
<1>5. \/ hand' = hand
      \/ /\ hand' \in [Commands -> Nat] /\ ~tty
         /\ hand' = [hand EXCEPT ![c] = Prompt]
      \/ hand' = [hand EXCEPT ![c] = 0]
  <2>1. Prompt \in Nat
    BY PipelineAssumption DEF Prompt
  <2> QED
    BY <2>1 DEF Redirect, CloseAll, Exec, dataState, ReadInv, DataForm
<1>6. DataForm'
  <2>1. Wires(c) \in [in : Nat, out : Nat]
    BY <1>2 DEF Wires, Commands
  <2>2. std' \in [Commands -> [in : Nat, out : Nat]]
    BY <1>4, <2>1 DEF ReadInv, DataForm
  <2>3. hand' \in [Commands -> Nat]
    <3>1. hand \in [Commands -> Nat]
      BY DEF ReadInv, DataForm
    <3>2. [hand EXCEPT ![c] = 0] \in [Commands -> Nat]
      BY <3>1
    <3> QED
      BY <1>5, <3>1, <3>2
  <2> QED
    BY <1>3, <2>2, <2>3 DEF ReadInv, DataForm
<1>7. Wired'
  BY <1>3, <1>4, WiredChild
<1>8. Tagged'
  <2>1. \A d \in Commands : hand'[d] = 0 \/ From(hand'[d], d)
    BY <1>5 DEF ReadInv, DataForm, Tagged, From
  <2> QED
    BY <1>3, <2>1 DEF ReadInv, Tagged, From, shellState
<1>9. Balanced'
  <2>1. UnderWay
    BY <1>3 DEF UnderWay
  <2> QED
    BY <1>3, <2>1 DEF ReadInv, Balanced, shellState, Count
<1>10. EndedAfter'
  BY <1>3, <1>4, EndedChild
<1> QED
  BY <1>1, <1>6, <1>7, <1>8, <1>9, <1>10 DEF ReadInv

(* An end of a pipe that is its own is held by a child that will write.    *)
LEMMA WriterHolds ==
    ASSUME ReadInv, NEW c \in Commands, c < Count, proc[c] \notin {"none", "ended"}
    PROVE  HasEnd(c, "w")
<1>1. c # Shell
  BY DEF Commands, Shell
<1>2. CASE proc[c] = "start"
  <2>1. <<c, "w">> \in ends[c]
    BY <1>2 DEF ReadInv, Wired
  <2> QED
    BY <2>1 DEF HasEnd, Holds
<1>3. CASE proc[c] # "start"
  <2>1. proc[c] \in ProcState
    BY DEF ReadInv, LeftInv, FormOK
  <2>2. std[c] = Wires(c)
    BY <1>3 DEF ReadInv, Wired
  <2>3. std[c].out = c
    BY <2>2 DEF Wires
  <2> QED
    BY <1>1, <2>3 DEF HasEnd, Holds
<1> QED
  BY <1>2, <1>3

LEMMA ReadEnds ==
    ASSUME ReadInv, NEW c \in Commands, Exits(c),
           UNCHANGED <<shellState, pipe, wrote, received>>, LeftInv',
           proc[c] \notin {"none", "ended"},
           c > 1 /\ c = Count /\ line[c] = "filter" =>
              proc[c - 1] \in {"none", "ended"} /\ pipe[c - 1] = <<>>
    PROVE  ReadInv'
<1>1. /\ proc' = [proc EXCEPT ![c] = "ended"] /\ std' = [std EXCEPT ![c] = NoPipes]
      /\ hand' = [hand EXCEPT ![c] = 0]
      /\ ends'[Shell] = ends[Shell] /\ \A d \in Commands \ {c} : ends'[d] = ends[d]
  BY DEF Exits, ReadInv, LeftInv, FormOK, Commands, Shell
<1>2. DataForm'
  <2>1. NoPipes \in [in : Nat, out : Nat]
    BY DEF NoPipes
  <2> QED
    BY <1>1, <2>1 DEF ReadInv, DataForm
<1>3. Wired'
  BY <1>1, WiredChild
<1>4. Tagged'
  BY <1>1 DEF ReadInv, DataForm, Tagged, From, shellState
<1>5. Balanced'
  <2>1. UnderWay
    BY DEF UnderWay
  <2> QED
    BY <2>1 DEF ReadInv, Balanced, shellState, Count
<1>6. EndedAfter'
  BY <1>1, EndedChild
<1> QED
  BY <1>2, <1>3, <1>4, <1>5, <1>6 DEF ReadInv

LEMMA ReadFinish ==
    ASSUME ReadInv, NEW c \in Commands, Finish(c) PROVE ReadInv'
<1>1. LeftInv'
  BY LeftChild DEF ReadInv, Child
<1>2. Exits(c) /\ UNCHANGED <<shellState, pipe, wrote, received>> /\ hand[c] = 0
  BY DEF Finish
<1>3. proc[c] \in {"run", "exit"}
  BY DEF Finish, Reads
<1>4. ASSUME c > 1, c = Count, line[c] = "filter"
      PROVE  proc[c - 1] \in {"none", "ended"} /\ pipe[c - 1] = <<>>
  <2>1. proc[c] = "run"
    BY <1>3, <1>4 DEF ReadInv, Wired
  <2>2. AtEnd(c)
    BY <1>2, <1>4, <2>1 DEF Finish, Reads
  <2>3. std[c].in = c - 1 /\ c - 1 # 0
    BY <1>3, <1>4, ChildWires DEF Commands
  <2>4. pipe[c - 1] = <<>> /\ ~HasEnd(c - 1, "w")
    BY <2>2, <2>3 DEF AtEnd
  <2>5. c - 1 \in Commands /\ c - 1 < Count
    BY <1>4, CommandForm
  <2> QED
    BY <2>4, <2>5, WriterHolds
<1> QED
  BY <1>1, <1>2, <1>3, <1>4, ReadEnds

LEMMA ReadWritten ==
    ASSUME ReadInv, NEW c \in Commands, WriteItem(c) PROVE ReadInv'
<1>1. LeftInv'
  BY LeftChild DEF ReadInv, Child
<1>2. proc[c] \in {"run", "exit"}
  BY DEF WriteItem, HasMore
<1>3. CASE Breaks(c) /\ Exits(c) /\ UNCHANGED <<shellState, pipe, wrote, received>>
  <2>1. c # Count
    BY <1>2, <1>3, ChildWires DEF Breaks
  <2> QED
    BY <1>1, <1>2, <1>3, <2>1, ReadEnds
<1>4. CASE /\ Emit(c, IF hand[c] = Prompt THEN Prompt ELSE c)
           /\ hand' = [hand EXCEPT ![c] = 0]
           /\ wrote' = [wrote EXCEPT ![c] =
                            IF line[c] = "yes" THEN 1 ELSE wrote[c] + 1]
           /\ UNCHANGED <<shellState, ends, std, proc, received>>
  <2> DEFINE t == IF hand[c] = Prompt THEN Prompt ELSE c
  <2>1. t \in Nat /\ From(t, c)
    BY PipelineAssumption DEF Prompt, Commands, ReadInv, Tagged, From
  <2>2. \/ std[c].out = 0 /\ UNCHANGED pipe
        \/ std[c].out # 0 /\ pipe' = [pipe EXCEPT ![std[c].out] = Append(@, t)]
    BY <1>4 DEF Emit
  <2> HIDE DEF t
  <2>3. \/ c = Count /\ UNCHANGED pipe
        \/ c \in Pipes /\ c < Count /\ pipe' = [pipe EXCEPT ![c] = Append(@, t)]
    <3>1. c \in 1..Count /\ Count \in Nat
          /\ (std[c].out # 0 => std[c].out = c /\ c \in Pipes /\ c < Count)
      BY <1>2, ChildWires
    <3>2. std[c].out = 0 => c = Count
      <4>1. std[c] = Wires(c)
        BY <1>2 DEF ReadInv, Wired
      <4>2. c < Count => std[c].out = c
        BY <4>1 DEF Wires
      <4> QED
        BY <3>1, <4>2
    <3> QED
      BY <2>2, <3>1, <3>2
  <2>4. DataForm'
    <3>1. pipe' \in [Pipes -> Seq(Nat)]
      <4>1. pipe \in [Pipes -> Seq(Nat)]
        BY DEF ReadInv, DataForm
      <4>2. ASSUME c \in Pipes
            PROVE  [pipe EXCEPT ![c] = Append(@, t)] \in [Pipes -> Seq(Nat)]
        <5>1. Append(pipe[c], t) \in Seq(Nat)
          BY <2>1, <4>1, <4>2, AppendProperties
        <5> QED
          BY <4>1, <5>1
      <4> QED
        BY <2>3, <4>1, <4>2
    <3>2. wrote' \in [Commands -> Nat] /\ hand' \in [Commands -> Nat]
      BY <1>4 DEF ReadInv, DataForm
    <3> QED
      BY <1>4, <3>1, <3>2 DEF ReadInv, DataForm
  <2>5. Wired'
    BY <1>4 DEF ReadInv, Wired, Wires, shellState, Count
  <2>6. Tagged'
    <3>1. \A d \in Commands : hand'[d] = 0 \/ From(hand'[d], d)
      BY <1>4 DEF ReadInv, DataForm, Tagged
    <3>2. ASSUME NEW i \in Pipes, NEW k \in DOMAIN pipe'[i] PROVE From(pipe'[i][k], i)
      <4>1. CASE pipe'[i] = pipe[i]
        BY <4>1 DEF ReadInv, Tagged
      <4>2. CASE i = c /\ pipe'[i] = Append(pipe[i], t)
        <5>1. pipe[i] \in Seq(Nat)
          BY DEF ReadInv, DataForm
        <5>2. \/ k \in DOMAIN pipe[i] /\ pipe'[i][k] = pipe[i][k]
              \/ pipe'[i][k] = t
          BY <2>1, <4>2, <5>1, AppendProperties
        <5> QED
          BY <2>1, <4>2, <5>2 DEF ReadInv, Tagged
      <4> QED
        BY <2>3, <4>1, <4>2 DEF ReadInv, DataForm
    <3> QED
      BY <1>4, <3>1, <3>2 DEF ReadInv, Tagged, From, shellState
  <2>7. Balanced'
    <3>1. UnderWay /\ UNCHANGED <<stage, line>> /\ Count' = Count
      BY <1>2, <1>4 DEF UnderWay, shellState, Count
    <3>2. stage # "pipe"
      BY <1>2 DEF ReadInv, LeftInv, Forked
    <3>3. ASSUME NEW i \in Pipes, i < Count, line[i] # "yes"
          PROVE  wrote'[i] = Len(pipe'[i]) + Len(received[i + 1])
      <4>1. wrote[i] = Len(pipe[i]) + Len(received[i + 1])
        BY <3>1, <3>3 DEF ReadInv, Balanced
      <4>2. i \in Commands /\ i + 1 \in Commands
        BY PipelineAssumption DEF Pipes, Commands
      <4>3. /\ pipe[i] \in Seq(Nat) /\ Len(pipe[i]) \in Nat
            /\ Len(received[i + 1]) \in Nat
        BY <4>2 DEF ReadInv, DataForm
      <4>4. CASE i = c
        <5>1. pipe'[i] = Append(pipe[i], t) /\ wrote'[i] = wrote[i] + 1
          <6>1. c \in Nat /\ Count \in Nat
            BY <1>2, ChildWires, CommandForm
          <6>2. pipe' = [pipe EXCEPT ![c] = Append(@, t)]
            BY <2>3, <3>3, <4>4, <6>1
          <6>3. pipe'[i] = Append(pipe[i], t)
            BY <4>4, <6>2 DEF ReadInv, DataForm
          <6>4. wrote'[i] = wrote[i] + 1
            BY <1>4, <3>3, <4>2, <4>4 DEF ReadInv, DataForm
          <6> QED
            BY <6>3, <6>4
        <5>2. Len(pipe'[i]) = Len(pipe[i]) + 1
          BY <2>1, <4>3, <5>1, AppendProperties
        <5> QED
          BY <4>1, <4>3, <5>1, <5>2, OneIn, Zenon
      <4>5. CASE i # c
        BY <1>4, <2>3, <4>1, <4>2, <4>5 DEF ReadInv, DataForm
      <4> QED
        BY <4>4, <4>5
    <3> QED
      BY <1>4, <3>1, <3>2, <3>3 DEF Balanced
  <2>8. EndedAfter'
    <3>1. proc' = [proc EXCEPT ![c] = proc[c]]
      BY <1>4 DEF ReadInv, LeftInv, FormOK
    <3>2. \A i \in Pipes \ {c - 1, c} : pipe'[i] = pipe[i]
      BY <2>3 DEF ReadInv, DataForm
    <3> QED
      BY <1>2, <1>4, <3>1, <3>2, EndedChild
  <2> QED
    BY <1>1, <2>4, <2>5, <2>6, <2>7, <2>8 DEF ReadInv
<1> QED
  BY <1>3, <1>4 DEF WriteItem

LEMMA ReadRead ==
    ASSUME ReadInv, NEW c \in Commands, ReadItem(c) PROVE ReadInv'
<1>1. LeftInv'
  BY LeftChild DEF ReadInv, Child
<1>2. proc[c] = "run" /\ UNCHANGED <<shellState, ends, std, proc, wrote>>
      /\ hand' = [hand EXCEPT ![c] = c]
  BY DEF ReadItem, Reads
<1>3. c - 1 \in Pipes /\ c > 1 /\ std[c].in = c - 1
  BY <1>2, ChildWires DEF ReadItem
<1>4. /\ pipe[c - 1] # <<>>
      /\ received' = [received EXCEPT ![c] = Append(@, Head(pipe[c - 1]))]
      /\ pipe' = [pipe EXCEPT ![c - 1] = Tail(@)]
  BY <1>3 DEF ReadItem
<1>5. pipe[c - 1] \in Seq(Nat) /\ received[c] \in Seq(Nat)
  BY <1>3 DEF ReadInv, DataForm
<1>6. /\ Head(pipe[c - 1]) \in Nat /\ Tail(pipe[c - 1]) \in Seq(Nat)
      /\ Len(Tail(pipe[c - 1])) = Len(pipe[c - 1]) - 1
      /\ Head(pipe[c - 1]) = pipe[c - 1][1] /\ 1 \in DOMAIN pipe[c - 1]
      /\ \A k \in DOMAIN Tail(pipe[c - 1]) :
            k + 1 \in DOMAIN pipe[c - 1] /\ Tail(pipe[c - 1])[k] = pipe[c - 1][k + 1]
  BY <1>4, <1>5, HeadTailProperties
<1>7. /\ pipe'[c - 1] = Tail(pipe[c - 1])
      /\ \A i \in Pipes \ {c - 1} : pipe'[i] = pipe[i]
      /\ received'[c] = Append(received[c], Head(pipe[c - 1]))
      /\ \A d \in Commands \ {c} : received'[d] = received[d]
  BY <1>3, <1>4 DEF ReadInv, DataForm
<1>8. DataForm'
  <2>1. hand' \in [Commands -> Nat]
    BY <1>2 DEF ReadInv, DataForm, Commands
  <2>2. pipe' \in [Pipes -> Seq(Nat)]
    BY <1>4, <1>6 DEF ReadInv, DataForm
  <2>3. received' \in [Commands -> Seq(Nat)]
    BY <1>4, <1>5, <1>6, AppendProperties DEF ReadInv, DataForm
  <2> QED
    BY <1>2, <2>1, <2>2, <2>3 DEF ReadInv, DataForm
<1>9. Wired'
  BY <1>2 DEF ReadInv, Wired, Wires, shellState, Count
<1>10. Tagged'
  <2>1. \A d \in Commands : hand'[d] = 0 \/ From(hand'[d], d)
    BY <1>2 DEF ReadInv, DataForm, Tagged, From
  <2>2. ASSUME NEW i \in Pipes, NEW k \in DOMAIN pipe'[i] PROVE From(pipe'[i][k], i)
    <3>1. CASE i = c - 1
      <4>1. k \in DOMAIN Tail(pipe[i]) /\ pipe'[i][k] = Tail(pipe[i])[k]
        BY <1>7, <2>2, <3>1
      <4>2. k + 1 \in DOMAIN pipe[i] /\ pipe'[i][k] = pipe[i][k + 1]
        BY <1>6, <3>1, <4>1
      <4> QED
        BY <4>2 DEF ReadInv, Tagged
    <3>2. CASE i # c - 1
      BY <1>7, <2>2, <3>2 DEF ReadInv, Tagged
    <3> QED
      BY <3>1, <3>2
  <2>3. ASSUME NEW d \in Commands, NEW k \in DOMAIN received'[d]
        PROVE  From(received'[d][k], d - 1)
    <3>1. CASE d # c
      BY <1>7, <2>3, <3>1 DEF ReadInv, Tagged
    <3>2. CASE d = c
      <4>1. \/ k \in DOMAIN received[c] /\ received'[c][k] = received[c][k]
            \/ received'[c][k] = Head(pipe[c - 1])
        BY <1>5, <1>6, <1>7, <2>3, <3>2, AppendProperties
      <4>2. From(Head(pipe[c - 1]), c - 1)
        BY <1>3, <1>6 DEF ReadInv, Tagged
      <4> QED
        BY <3>2, <4>1, <4>2 DEF ReadInv, Tagged
    <3> QED
      BY <3>1, <3>2
  <2> QED
    BY <1>2, <2>1, <2>2, <2>3 DEF Tagged, From, shellState
<1>11. Balanced'
  <2>1. UnderWay /\ UNCHANGED <<stage, line>> /\ Count' = Count
    BY <1>2 DEF UnderWay, shellState, Count
  <2>2. stage # "pipe"
    BY <1>2 DEF ReadInv, LeftInv, Forked
  <2>3. ASSUME NEW i \in Pipes, i < Count, line[i] # "yes"
        PROVE  wrote[i] = Len(pipe'[i]) + Len(received'[i + 1])
    <3>1. wrote[i] = Len(pipe[i]) + Len(received[i + 1])
      BY <2>1, <2>3 DEF ReadInv, Balanced
    <3>2. i + 1 \in Commands /\ i \in Nat /\ c \in Nat
      BY PipelineAssumption DEF Pipes, Commands
    <3>3. CASE i = c - 1
      <4>1. i + 1 = c
        BY <3>2, <3>3
      <4>2. Len(received'[c]) = Len(received[c]) + 1
        BY <1>5, <1>6, <1>7, AppendProperties
      <4>3. Len(pipe'[i]) = Len(pipe[i]) - 1
        BY <1>6, <1>7, <3>3
      <4>4. Len(pipe[i]) \in Nat /\ Len(received[c]) \in Nat
        BY <1>5, <3>3
      <4> QED
        BY <3>1, <4>1, <4>2, <4>3, <4>4, OneOver, Zenon
    <3>4. CASE i # c - 1
      <4>1. i + 1 # c
        BY <3>2, <3>4
      <4>2. pipe'[i] = pipe[i] /\ received'[i + 1] = received[i + 1]
        BY <1>7, <3>2, <3>4, <4>1
      <4> QED
        BY <3>1, <4>2
    <3> QED
      BY <3>3, <3>4
  <2> QED
    BY <1>2, <2>1, <2>2, <2>3 DEF Balanced
<1>12. EndedAfter'
  <2>1. proc' = [proc EXCEPT ![c] = proc[c]]
    BY <1>2 DEF ReadInv, LeftInv, FormOK
  <2>2. \A i \in Pipes \ {c - 1, c} : pipe'[i] = pipe[i]
    BY <1>7
  <2> QED
    BY <1>2, <2>1, <2>2, EndedChild
<1> QED
  BY <1>1, <1>8, <1>9, <1>10, <1>11, <1>12 DEF ReadInv

LEMMA ReadStep == ASSUME ReadInv, [PipeNext]_pipeVars PROVE ReadInv'
<1>1. CASE Leave
  BY <1>1, ReadLeave
<1>2. ASSUME NEW l \in Lines, ReadLine(l) PROVE ReadInv'
  BY <1>2, ReadReadLine
<1>3. CASE ShellGoesOn
  BY <1>3, ReadPipes, ReadFails, ReadFork, ReadClose, ReadWait DEF ShellGoesOn
<1>4. ASSUME NEW c \in Commands, Child(c) PROVE ReadInv'
  BY <1>4, ReadOnItsWay, ReadWritten, ReadRead, ReadFinish DEF Child
<1>5. CASE UNCHANGED pipeVars
  <2>1. LeftInv'
    BY <1>5, LeftStep DEF ReadInv
  <2> QED
    BY <1>5, <2>1
    DEF pipeVars, shellState, dataState, ReadInv, DataForm, Wired, Wires, Count,
        Tagged, From, Balanced, UnderWay, EndedAfter
<1> QED
  BY <1>1, <1>2, <1>3, <1>4, <1>5 DEF PipeNext

(* What is not yet behind stdin or stdout of a child is an end of a pipe   *)
(* of its line, and is closed before the child executes.                   *)
SpareEnds ==
    \A c \in Commands :
        /\ ends[c] \subseteq AllEnds(Count)
        /\ proc[c] \notin {"start", "close"} => ends[c] = {}

LEMMA SpareShell ==
    ASSUME ReadInv, SpareEnds, ShellGoesOn PROVE SpareEnds'
<1>0. /\ ends = [p \in {Shell} \cup Commands |-> ends[p]]
      /\ Shell \notin Commands /\ proc \in [Commands -> ProcState]
  BY CommandForm DEF ReadInv, LeftInv, FormOK
<1>1. UNCHANGED line
  BY DEF ShellGoesOn, MakePipes, Fails, Fork, CloseRest, Wait
<1>2. Count' = Count
  BY <1>1 DEF Count
<1>3. CASE MakePipes \/ Fails \/ CloseRest
  <2>1. UNCHANGED proc /\ \A c \in Commands : ends'[c] = ends[c]
    BY <1>0, <1>3 DEF MakePipes, Fails, CloseRest
  <2> QED
    BY <1>2, <2>1 DEF SpareEnds
<1>4. CASE Wait
  <2>1. UNCHANGED ends
    BY <1>4 DEF Wait
  <2>2. \A c \in Commands : \/ proc'[c] = proc[c]
                            \/ proc'[c] = "none" /\ proc[c] = "ended"
    <3> TAKE c \in Commands
    <3>1. proc[next] = "ended" /\ proc' = [proc EXCEPT ![next] = "none"]
      BY <1>4 DEF Wait
    <3>2. CASE c = next
      BY <1>0, <3>1, <3>2
    <3>3. CASE c # next
      BY <1>0, <3>1, <3>3
    <3> QED
      BY <3>2, <3>3
  <2> QED
    BY <1>2, <2>1, <2>2 DEF SpareEnds
<1>5. CASE Fork
  <2>1. /\ ends[Shell] \subseteq AllEnds(Count) /\ next \in 1..Count
    BY <1>5 DEF Fork, ReadInv, LeftInv, Forked
  <2>2. next \in Commands
    BY <2>1, CountType DEF ReadInv, LeftInv, Commands
  <2>3. /\ ends'[next] = ends[Shell]
        /\ proc'[next] = IF Count = 1 THEN "exec" ELSE "start"
        /\ \A c \in Commands \ {next} : ends'[c] = ends[c] /\ proc'[c] = proc[c]
    BY <1>0, <1>5, <2>2 DEF Fork
  <2>4. ends'[next] \subseteq AllEnds(Count)
    BY <2>1, <2>3
  <2>5. proc'[next] \notin {"start", "close"} => ends'[next] = {}
    BY <2>3, <2>4, NoEnds
  <2>6. ASSUME NEW c \in Commands
        PROVE  /\ ends'[c] \subseteq AllEnds(Count)
               /\ proc'[c] \notin {"start", "close"} => ends'[c] = {}
    <3>1. CASE c = next
      BY <2>4, <2>5, <3>1
    <3>2. CASE c # next
      BY <2>3, <3>2 DEF SpareEnds
    <3> QED
      BY <3>1, <3>2
  <2> QED
    BY <1>2, <2>6 DEF SpareEnds
<1> QED
  BY <1>3, <1>4, <1>5 DEF ShellGoesOn

(* What a step of child c does to its state and to its ends.               *)
LEMMA SpareMoves ==
    ASSUME FormOK, SpareEnds, NEW c \in Commands, Child(c)
    PROVE  /\ ends'[c] \subseteq AllEnds(Count)
           /\ proc'[c] \notin {"start", "close"} => ends'[c] = {}
           /\ \A d \in Commands \ {c} : ends'[d] = ends[d]
<1>0. /\ ends = [p \in {Shell} \cup Commands |-> ends[p]]
      /\ proc \in [Commands -> ProcState]
  BY DEF FormOK
<1>1. /\ ends[c] \subseteq AllEnds(Count)
      /\ proc[c] \notin {"start", "close"} => ends[c] = {}
  BY DEF SpareEnds
<1>2. CASE Redirect(c)
  <2>1. /\ proc'[c] = "close" /\ ends'[c] \subseteq ends[c]
        /\ \A d \in Commands \ {c} : ends'[d] = ends[d]
    BY <1>0, <1>2 DEF Redirect
  <2> QED
    BY <1>1, <2>1
<1>3. CASE CloseAll(c)
  <2>1. /\ ends'[c] = ends[c] \ AllEnds(Count)
        /\ \A d \in Commands \ {c} : ends'[d] = ends[d]
    BY <1>0, <1>3 DEF CloseAll
  <2> QED
    BY <1>1, <2>1
<1>4. CASE Exec(c) \/ ReadItem(c)
  <2>1. UNCHANGED ends /\ proc[c] \notin {"start", "close"}
    BY <1>4 DEF Exec, ReadItem, Reads
  <2> QED
    BY <1>1, <2>1
<1>5. CASE WriteItem(c) \/ Finish(c)
  <2>1. proc[c] \in {"run", "exit"}
    BY <1>5 DEF WriteItem, HasMore, Finish, Reads
  <2>2. UNCHANGED ends \/ Exits(c)
    BY <1>5 DEF WriteItem, Finish
  <2>3. Exits(c) => /\ ends'[c] = {}
                    /\ \A d \in Commands \ {c} : ends'[d] = ends[d]
    BY <1>0 DEF Exits
  <2> QED
    BY <1>1, <2>1, <2>2, <2>3
<1> QED
  BY <1>2, <1>3, <1>4, <1>5 DEF Child

LEMMA SpareStep ==
    ASSUME ReadInv, SpareEnds, [PipeNext]_pipeVars PROVE SpareEnds'
<1>1. CASE Leave
  BY <1>1 DEF Leave, SpareEnds, Count
<1>2. ASSUME NEW l \in Lines, ReadLine(l) PROVE SpareEnds'
  <2>1. UNCHANGED <<ends, proc>> /\ \A c \in Commands : proc[c] = "none"
    BY <1>2 DEF ReadLine, ReadInv, LeftInv, Forked
  <2>2. \A c \in Commands : ends[c] = {}
    BY <2>1 DEF SpareEnds
  <2> QED
    BY <2>1, <2>2 DEF SpareEnds
<1>3. ASSUME NEW c \in Commands, Child(c) PROVE SpareEnds'
  <2>1. FormOK /\ UNCHANGED line
    BY <1>3, ChildAlone DEF ReadInv, LeftInv, shellState
  <2>2. Count' = Count
    BY <2>1 DEF Count
  <2>3. \A d \in Commands \ {c} : proc'[d] = proc[d] /\ ends'[d] = ends[d]
    BY <1>3, <2>1, ChildAlone, SpareMoves
  <2>4. /\ ends'[c] \subseteq AllEnds(Count)
        /\ proc'[c] \notin {"start", "close"} => ends'[c] = {}
    BY <1>3, <2>1, SpareMoves
  <2>5. ASSUME NEW d \in Commands
        PROVE  /\ ends'[d] \subseteq AllEnds(Count)
               /\ proc'[d] \notin {"start", "close"} => ends'[d] = {}
    <3>1. CASE d = c
      BY <2>4, <3>1
    <3>2. CASE d # c
      BY <2>3, <3>2 DEF SpareEnds
    <3> QED
      BY <3>1, <3>2
  <2> QED
    BY <2>2, <2>5 DEF SpareEnds
<1>4. CASE UNCHANGED pipeVars
  BY <1>4 DEF pipeVars, shellState, SpareEnds, Count
<1> QED
  BY <1>1, <1>2, <1>3, <1>4, SpareShell DEF PipeNext

LEMMA OwnEnds == ASSUME ReadInv, SpareEnds PROVE OwnEndsOnly
<1> SUFFICES ASSUME NEW i \in Pipes
             PROVE  /\ stage = "wait" =>
                          ~Holds(Shell, i, "r") /\ ~Holds(Shell, i, "w")
                    /\ \A c \in Commands :
                          /\ proc[c] \in {"exec", "run", "exit"} =>
                                /\ Holds(c, i, "r") <=> i = c - 1
                                /\ Holds(c, i, "w") <=> i = c /\ c < Count
                          /\ proc[c] \in {"none", "ended"} =>
                                ~Holds(c, i, "r") /\ ~Holds(c, i, "w")
  BY DEF OwnEndsOnly
<1>0. i \in Nat /\ i # 0 /\ Count \in Nat
  BY PipelineAssumption, CountType DEF Pipes, ReadInv, LeftInv
<1>1. stage = "wait" => ends[Shell] = {}
  BY DEF ReadInv, LeftInv, Forked
<1>2. ASSUME NEW c \in Commands, proc[c] \notin {"start", "close"}
      PROVE  /\ Holds(c, i, "r") <=> std[c].in = i
             /\ Holds(c, i, "w") <=> std[c].out = i
  <2>1. ends[c] = {} /\ c # Shell
    BY <1>2, CommandForm DEF SpareEnds
  <2> QED
    BY <2>1 DEF Holds
<1>3. ASSUME NEW c \in Commands, proc[c] \in {"exec", "run", "exit"}
      PROVE  /\ Holds(c, i, "r") <=> i = c - 1
             /\ Holds(c, i, "w") <=> i = c /\ c < Count
  <2>1. std[c] = Wires(c)
    BY <1>3 DEF ReadInv, Wired
  <2>2. /\ std[c].in = IF c > 1 THEN c - 1 ELSE 0
        /\ std[c].out = IF c < Count THEN c ELSE 0
    BY <2>1 DEF Wires
  <2>3. c \in Nat /\ c >= 1
    BY PipelineAssumption DEF Commands
  <2>4. std[c].in = i <=> i = c - 1
    BY <1>0, <2>2, <2>3
  <2>5. std[c].out = i <=> i = c /\ c < Count
    BY <1>0, <2>2, <2>3
  <2>6. /\ Holds(c, i, "r") <=> std[c].in = i
        /\ Holds(c, i, "w") <=> std[c].out = i
    BY <1>2, <1>3
  <2> QED
    BY <2>4, <2>5, <2>6
<1>4. ASSUME NEW c \in Commands, proc[c] \in {"none", "ended"}
      PROVE  ~Holds(c, i, "r") /\ ~Holds(c, i, "w")
  <2>1. std[c] = NoPipes
    BY <1>4 DEF ReadInv, Wired
  <2>2. std[c].in = 0 /\ std[c].out = 0
    BY <2>1 DEF NoPipes
  <2> QED
    BY <1>0, <1>2, <1>4, <2>2
<1>5. stage = "wait" => ~Holds(Shell, i, "r") /\ ~Holds(Shell, i, "w")
  BY <1>1 DEF Holds
<1> QED
  BY <1>3, <1>4, <1>5

(* Whoever executes its command holds the two ends that are its own, and   *)
(* no end stays with somebody who has no use for it, for a line of any     *)
(* length and wherever each child stands (main.c 183-195, 202-225).        *)
THEOREM OwnEndsAlways == PipeSpec => []OwnEndsOnly
<1>1. PipeInit => SpareEnds
  <2> SUFFICES ASSUME PipeInit PROVE SpareEnds
    OBVIOUS
  <2>1. \A c \in Commands : ends[c] = {}
    BY DEF PipeInit
  <2> QED
    BY <2>1 DEF SpareEnds
<1>2. ReadInv /\ SpareEnds /\ [PipeNext]_pipeVars => ReadInv' /\ SpareEnds'
  BY ReadStep, SpareStep
<1>3. ReadInv /\ SpareEnds => OwnEndsOnly
  BY OwnEnds
<1> QED
  BY <1>1, <1>2, <1>3, ReadStart, PTL DEF PipeSpec

LEMMA ReadEnough == ASSUME ReadInv PROVE NeighbourReads
<1>1. ASSUME NEW c \in Commands, NEW k \in DOMAIN received[c]
      PROVE  received[c][k] = c - 1 \/ (~tty /\ received[c][k] = Prompt)
  BY DEF ReadInv, Tagged, From
<1>2. ASSUME NEW c \in Commands, proc[c] = "ended", c > 1, c = Count,
             line[c] = "filter"
      PROVE  Len(received[c]) = wrote[c - 1]
  <2>1. /\ c - 1 \in Pipes /\ c - 1 < Count /\ (c - 1) + 1 = c /\ c \in Nat
        /\ pipe[c - 1] = <<>> /\ UnderWay
    BY <1>2, PipelineAssumption
    DEF Commands, Pipes, UnderWay, ReadInv, EndedAfter
  <2>2. line[c - 1] # "yes"
    <3>1. line \in Lines /\ line \in Seq(Kind)
      <4>1. line # <<>>
        BY <1>2 DEF Count
      <4>2. line \in Lines
        BY <4>1 DEF ReadInv, LeftInv, FormOK
      <4>3. PICK n \in 0..MaxCommands : line \in [1..n -> Kind]
        BY <4>2, PipelineAssumption
      <4> QED
        BY <4>2, <4>3, PipelineAssumption
    <3>2. DOMAIN line = 1..c
      BY <1>2, <3>1 DEF Count
    <3>3. SUFFICES ASSUME line[c - 1] = "yes" PROVE FALSE
      OBVIOUS
    <3>4. c - 1 \in DOMAIN line
      BY <1>2, <2>1, <3>2
    <3>5. PICK d \in DOMAIN line : d > c - 1 /\ line[d] \in Early
      BY <3>1, <3>3, <3>4, EndlessIsCutOff
    <3>6. d = c
      BY <2>1, <3>2, <3>5
    <3> QED
      BY <1>2, <3>5, <3>6 DEF Early
  <2>3. wrote[c - 1] = Len(pipe[c - 1]) + Len(received[c])
    BY <2>1, <2>2 DEF ReadInv, Balanced
  <2>4. received[c] \in Seq(Nat)
    BY DEF ReadInv, DataForm
  <2> QED
    BY <2>1, <2>3, <2>4
<1> QED
  BY <1>1, <1>2 DEF NeighbourReads

(* A command reads only what its left neighbour has written, or the prompt *)
(* when there is no terminal, and a filter at the end of the line has read *)
(* it all when it ends (main.c 183-199), however the children run.         *)
THEOREM NeighbourAlwaysReads == PipeSpec => []NeighbourReads
  BY ReadStart, ReadStep, ReadEnough, PTL DEF PipeSpec

-----------------------------------------------------------------------------
(***************************************************************************)
(* The panels.                                                             *)
(***************************************************************************)

Kept(d) == listing[d] = Content[d]

PanelForm ==
    /\ listing \in [Dirs -> Seq(Entries)] /\ namelist \in Seq(Entries)
    /\ \A d \in Dirs : Len(listing[d]) <= Len(Content[d])
    /\ cnd \in Panel /\ path \in [Panel -> Dirs]
    /\ target \in [Panel -> Nat] /\ up \in [Panel -> Int] /\ down \in [Panel -> Int]
    /\ ui \in {"keys", "ended", "wild"}

InWindow ==
    \A p \in Panel :
        /\ 0 <= up[p] /\ up[p] <= target[p]
        /\ target[p] < down[p] /\ down[p] = up[p] + Rows

(* What makes the one list serve two panels: it is that of the panel with  *)
(* the keys, as long as nobody has changed the directory.                  *)
OnEntry ==
    ui # "ended" =>
        /\ Kept(path[cnd]) => namelist = Content[path[cnd]] /\ ui # "wild"
        /\ \A p \in Panel :
              Kept(path[p]) => target[p] < Len(Content[path[p]])

PanelInv == PanelForm /\ InWindow /\ OnEntry

LEMMA ContentForm ==
    ASSUME NEW d \in Dirs
    PROVE  /\ Content[d] \in Seq(Entries) /\ Len(Content[d]) \in Nat \ {0}
           /\ Rows \in Nat \ {0}
  BY PanelsAssumption, EmptySeq

LEMMA PanelStart == PanelsInit => PanelInv
<1> SUFFICES ASSUME PanelsInit PROVE PanelInv
  OBVIOUS
<1>1. Root \in Dirs /\ Content[Root] \in Seq(Entries)
      /\ Len(Content[Root]) \in Nat \ {0} /\ Rows \in Nat \ {0}
  BY ContentForm, PanelsAssumption
<1>2. /\ Content \in [Dirs -> Seq(Entries)]
      /\ \A d \in Dirs : Len(Content[d]) \in Nat
  BY ContentForm, PanelsAssumption
<1>3. PanelForm
  BY <1>1, <1>2 DEF PanelsInit, PanelForm, Panel
<1>4. InWindow
  BY <1>1 DEF PanelsInit, InWindow
<1>5. OnEntry
  BY <1>1 DEF PanelsInit, OnEntry, Panel
<1> QED
  BY <1>3, <1>4, <1>5 DEF PanelInv

-----------------------------------------------------------------------------
(* What MoveTo does to the window of the panel with the keys, for a row at *)
(* most one from the cursor, or the first.                                 *)
LEMMA WindowMoved ==
    ASSUME PanelForm, InWindow, NEW row \in Nat, MoveTo(row),
           row = 0 \/ row \in target[cnd] - 1 .. target[cnd] + 1
    PROVE  /\ target' = [target EXCEPT ![cnd] = row]
           /\ target' \in [Panel -> Nat]
           /\ up' \in [Panel -> Int] /\ down' \in [Panel -> Int]
           /\ InWindow'
           /\ up'[cnd] <= row
<1>1. Rows \in Nat \ {0} /\ cnd \in Panel
  BY PanelsAssumption DEF PanelForm
<1>2. /\ target[cnd] \in Nat /\ up[cnd] \in Int /\ down[cnd] \in Int
      /\ 0 <= up[cnd] /\ up[cnd] <= target[cnd]
      /\ target[cnd] < down[cnd] /\ down[cnd] = up[cnd] + Rows
  BY <1>1 DEF PanelForm, InWindow
<1> DEFINE d == IF row < up[cnd] THEN row - up[cnd]
                ELSE IF row = down[cnd] THEN 1 ELSE 0
<1>3. d \in Int
  BY <1>2
<1>4. /\ target' = [target EXCEPT ![cnd] = row]
      /\ up' = [up EXCEPT ![cnd] = up[cnd] + d]
      /\ down' = [down EXCEPT ![cnd] = down[cnd] + d]
  BY DEF MoveTo
<1>5. /\ 0 <= up[cnd] + d /\ up[cnd] + d <= row
      /\ row < down[cnd] + d /\ down[cnd] + d = up[cnd] + d + Rows
  BY <1>1, <1>2
<1> HIDE DEF d
<1>6. target' \in [Panel -> Nat] /\ up' \in [Panel -> Int] /\ down' \in [Panel -> Int]
  BY <1>2, <1>3, <1>4 DEF PanelForm
<1>7. up'[cnd] = up[cnd] + d /\ down'[cnd] = down[cnd] + d /\ target'[cnd] = row
  BY <1>1, <1>4 DEF PanelForm
<1>8. \A p \in Panel \ {cnd} : up'[p] = up[p] /\ down'[p] = down[p] /\ target'[p] = target[p]
  BY <1>4 DEF PanelForm
<1>9. InWindow'
  BY <1>5, <1>7, <1>8 DEF InWindow
<1> QED
  BY <1>4, <1>5, <1>6, <1>7, <1>9

(* A key that moves the cursor to an entry of the list.                    *)
LEMMA CursorMoved ==
    ASSUME PanelInv, ui = "keys", NEW row \in Nat, MoveTo(row), print_dirs(namelist),
           row \in target[cnd] - 1 .. target[cnd] + 1,
           target[cnd] < Len(namelist) => row < Len(namelist),
           UNCHANGED <<listing, namelist, cnd, path>>
    PROVE  PanelInv'
<1>1. /\ target' = [target EXCEPT ![cnd] = row]
      /\ target' \in [Panel -> Nat] /\ up' \in [Panel -> Int] /\ down' \in [Panel -> Int]
      /\ InWindow' /\ up'[cnd] <= row
  BY WindowMoved DEF PanelInv
<1>2. PanelForm'
  BY <1>1 DEF PanelInv, PanelForm, print_dirs
<1>3. ASSUME Kept(path[cnd])
      PROVE  namelist = Content[path[cnd]] /\ row < Len(namelist)
  BY <1>3 DEF PanelInv, PanelForm, OnEntry
<1>4. Kept(path[cnd]) => ui' # "wild"
  <2> SUFFICES ASSUME Kept(path[cnd]) PROVE ui' # "wild"
    OBVIOUS
  <2>1. Len(namelist) \in Nat /\ up'[cnd] \in Int
    BY <1>1 DEF PanelInv, PanelForm
  <2> QED
    BY <1>1, <1>3, <2>1 DEF print_dirs
<1>5. OnEntry'
  <2>1. \A p \in Panel : Kept(path[p]) => target'[p] < Len(Content[path[p]])
    BY <1>1, <1>3 DEF PanelInv, PanelForm, OnEntry
  <2> QED
    BY <1>3, <1>4, <2>1 DEF OnEntry, Kept
<1> QED
  BY <1>1, <1>2, <1>5 DEF PanelInv

LEMMA PanelDown == ASSUME PanelInv, move_down PROVE PanelInv'
<1> DEFINE row == target[cnd] + (IF target[cnd] = ndirs - 1 THEN 0 ELSE 1)
<1>1. target[cnd] \in Nat /\ Len(namelist) \in Nat
  BY DEF PanelInv, PanelForm
<1>2. /\ row \in Nat /\ row \in target[cnd] - 1 .. target[cnd] + 1
      /\ target[cnd] < Len(namelist) => row < Len(namelist)
  BY <1>1 DEF ndirs
<1>3. /\ ui = "keys" /\ MoveTo(row) /\ print_dirs(namelist)
      /\ UNCHANGED <<listing, namelist, cnd, path>>
  BY DEF move_down
<1> HIDE DEF row
<1> QED
  BY <1>2, <1>3, CursorMoved

LEMMA PanelUp == ASSUME PanelInv, move_up PROVE PanelInv'
<1> DEFINE row == target[cnd] - (IF target[cnd] = 0 THEN 0 ELSE 1)
<1>1. target[cnd] \in Nat /\ Len(namelist) \in Nat
  BY DEF PanelInv, PanelForm
<1>2. /\ row \in Nat /\ row \in target[cnd] - 1 .. target[cnd] + 1
      /\ target[cnd] < Len(namelist) => row < Len(namelist)
  BY <1>1
<1>3. /\ ui = "keys" /\ MoveTo(row) /\ print_dirs(namelist)
      /\ UNCHANGED <<listing, namelist, cnd, path>>
  BY DEF move_up
<1> HIDE DEF row
<1> QED
  BY <1>2, <1>3, CursorMoved

-----------------------------------------------------------------------------
LEMMA PanelOpens ==
    ASSUME PanelInv, ui = "keys",
           NEW d \in Dirs, OpenDirectory(d), UNCHANGED <<listing, cnd>>
    PROVE  PanelInv'
<1>1. path' \in [Panel -> Dirs] /\ path'[cnd] = d
      /\ \A p \in Panel \ {cnd} : path'[p] = path[p]
  BY DEF PanelInv, PanelForm, OpenDirectory
<1>2. CASE d \in Unreadable
  <2>1. ui' = "ended" /\ UNCHANGED <<namelist, window>>
    BY <1>2 DEF OpenDirectory
  <2> QED
    BY <1>1, <2>1 DEF PanelInv, PanelForm, InWindow, OnEntry, window
<1>3. CASE d \notin Unreadable
  <2>1. namelist' = listing[d] /\ MoveTo(0) /\ print_dirs(listing[d])
    BY <1>3 DEF OpenDirectory
  <2>2. /\ target' = [target EXCEPT ![cnd] = 0]
        /\ target' \in [Panel -> Nat] /\ up' \in [Panel -> Int]
        /\ down' \in [Panel -> Int] /\ InWindow' /\ up'[cnd] <= 0
    BY <2>1, WindowMoved DEF PanelInv
  <2>3. ui' = "keys"
    <3>1. Len(listing[d]) \in Nat /\ up'[cnd] \in Int
      BY <2>2 DEF PanelInv, PanelForm
    <3> QED
      BY <2>1, <2>2, <3>1 DEF print_dirs
  <2>4. PanelForm'
    BY <1>1, <2>1, <2>2, <2>3 DEF PanelInv, PanelForm
  <2>5. OnEntry'
    <3>1. Kept(d) => namelist' = Content[d]
      BY <2>1 DEF Kept
    <3>2. target'[cnd] < Len(Content[d])
      BY <2>2, ContentForm DEF PanelInv, PanelForm
    <3>3. \A p \in Panel \ {cnd} :
             Kept(path[p]) => target'[p] < Len(Content[path[p]])
      BY <2>2 DEF PanelInv, PanelForm, OnEntry
    <3> QED
      BY <1>1, <2>3, <3>1, <3>2, <3>3 DEF OnEntry, Kept
  <2> QED
    BY <2>2, <2>4, <2>5 DEF PanelInv
<1> QED
  BY <1>2, <1>3

LEMMA PanelEnter == ASSUME PanelInv, open_dir PROVE PanelInv'
<1> DEFINE entry == namelist[target[cnd] + 1]
<1>1. ui = "keys" /\ UNCHANGED <<listing, cnd>>
  BY DEF open_dir
<1>2. CASE target[cnd] >= ndirs
  <2>1. ui' = "wild" /\ UNCHANGED <<namelist, path, window>>
    BY <1>2 DEF open_dir
  <2>2. ~Kept(path[cnd])
    BY <1>1, <1>2 DEF PanelInv, PanelForm, OnEntry, ndirs
  <2> QED
    BY <1>1, <2>1, <2>2
    DEF PanelInv, PanelForm, InWindow, OnEntry, Kept, window
<1>3. CASE target[cnd] < ndirs /\ entry \in Dirs
  <2>1. OpenDirectory(entry)
    BY <1>3 DEF open_dir, PanelInv, PanelForm, ndirs
  <2> QED
    BY <1>1, <1>3, <2>1, PanelOpens
<1>4. CASE target[cnd] < ndirs /\ entry \notin Dirs
  <2>1. ui' \in {"keys", "ended"} /\ UNCHANGED <<namelist, path, window>>
    BY <1>4 DEF open_dir, PanelInv, PanelForm, ndirs
  <2> QED
    BY <1>1, <2>1 DEF PanelInv, PanelForm, InWindow, OnEntry, Kept, window
<1>5. target[cnd] \in Nat /\ ndirs \in Nat
  BY DEF PanelInv, PanelForm, ndirs
<1> QED
  BY <1>2, <1>3, <1>4, <1>5

LEMMA PanelTab == ASSUME PanelInv, SwitchPanel PROVE PanelInv'
<1>1. cnd' \in Panel /\ namelist' = listing[path[cnd']]
      /\ UNCHANGED <<listing, path, target, up, down, ui>> /\ ui = "keys"
  BY DEF SwitchPanel, Panel, window
<1>2. PanelForm'
  BY <1>1 DEF PanelInv, PanelForm
<1>3. InWindow' /\ OnEntry'
  BY <1>1 DEF PanelInv, InWindow, OnEntry, Kept
<1> QED
  BY <1>2, <1>3 DEF PanelInv

(* A file that is removed leaves a shorter list.                           *)
LEMMA Shorter ==
    ASSUME NEW s \in Seq(Entries), NEW i \in DOMAIN s
    PROVE  RemoveAt(s, i) \in Seq(Entries) /\ Len(RemoveAt(s, i)) < Len(s)
<1>1. i \in 1..Len(s) /\ Len(s) \in Nat
  OBVIOUS
<1>2. SubSeq(s, 1, i - 1) \in Seq(Entries) /\ Len(SubSeq(s, 1, i - 1)) = i - 1
  BY <1>1, SubSeqProperties
<1>3. /\ SubSeq(s, i + 1, Len(s)) \in Seq(Entries)
      /\ Len(SubSeq(s, i + 1, Len(s))) = Len(s) - i
  BY <1>1, SubSeqProperties
<1> QED
  BY <1>1, <1>2, <1>3, ConcatProperties DEF RemoveAt

LEMMA PanelRemoved ==
    ASSUME PanelInv, NEW d \in Dirs, NEW i \in DOMAIN listing[d], Removed(d, i)
    PROVE  PanelInv'
<1>1. /\ listing' = [listing EXCEPT ![d] = RemoveAt(listing[d], i)]
      /\ UNCHANGED <<namelist, cnd, path, target, up, down, ui>>
  BY DEF Removed, window
<1>2. /\ RemoveAt(listing[d], i) \in Seq(Entries)
      /\ Len(RemoveAt(listing[d], i)) < Len(listing[d])
      /\ Len(listing[d]) <= Len(Content[d])
  BY Shorter DEF PanelInv, PanelForm
<1>3. listing' \in [Dirs -> Seq(Entries)]
  BY <1>1, <1>2 DEF PanelInv, PanelForm
<1>4. \A e \in Dirs \ {d} : listing'[e] = listing[e]
  BY <1>1 DEF PanelInv, PanelForm
<1>5. /\ listing'[d] = RemoveAt(listing[d], i) /\ Len(listing'[d]) \in Nat
      /\ Len(listing[d]) \in Nat /\ Len(Content[d]) \in Nat
  BY <1>1, <1>2, ContentForm DEF PanelInv, PanelForm
<1>6. Len(listing'[d]) < Len(Content[d])
  BY <1>2, <1>5
<1>7. ASSUME NEW e \in Dirs PROVE Len(listing'[e]) <= Len(Content[e])
  <2>1. CASE e = d
    BY <1>5, <1>6, <2>1
  <2>2. CASE e # d
    BY <1>4, <2>2 DEF PanelInv, PanelForm
  <2> QED
    BY <2>1, <2>2
<1>8. PanelForm'
  BY <1>1, <1>3, <1>7 DEF PanelInv, PanelForm
<1>9. \A e \in Dirs : listing'[e] = Content[e] => Kept(e)
  BY <1>4, <1>5, <1>6 DEF Kept
<1>10. OnEntry'
  BY <1>1, <1>9 DEF PanelInv, PanelForm, OnEntry, Kept
<1> QED
  BY <1>1, <1>8, <1>10 DEF PanelInv, InWindow

LEMMA PanelStep == ASSUME PanelInv, [PanelsNext]_panelVars PROVE PanelInv'
<1>1. CASE QuitPanels
  BY <1>1 DEF QuitPanels, window, PanelInv, PanelForm, InWindow, OnEntry
<1>2. CASE UNCHANGED panelVars
  BY <1>2 DEF panelVars, window, PanelInv, PanelForm, InWindow, OnEntry, Kept
<1> QED
  BY <1>1, <1>2, PanelDown, PanelUp, PanelEnter, PanelTab, PanelRemoved
  DEF PanelsNext

(* For every tree and every height of the windows: the cursor of either    *)
(* panel stays in its window, and on an entry, as long as nobody removes   *)
(* one from its directory, however the user goes from panel to panel       *)
(* (main.c 64-128, my_funcs.c 44-89, indexes.c).                           *)
THEOREM CursorStaysInSight == PanelsSpec => []CursorInSight
<1>1. PanelInv => CursorInSight
  BY DEF PanelInv, PanelForm, InWindow, OnEntry, Kept, CursorInSight
<1> QED
  BY <1>1, PanelStart, PanelStep, PTL DEF PanelsSpec
=============================================================================
