------------------------------- MODULE Pipeline -------------------------------
(***************************************************************************)
(* task12/pipeline_bash: a shell that reads a line of commands separated   *)
(* by bars, makes all the pipes, forks a child for each command, and waits *)
(* for all of them.  A pipe is at its end for the reader when nobody holds *)
(* its write end any more, and breaks for the writer when nobody holds its *)
(* read end: who closes which end, and when, decides whether a line ends.  *)
(***************************************************************************)
EXTENDS Naturals, Sequences

CONSTANTS
    Lines,      \* the lines the user may type, a kind for each command
    MaxCommands,\* bound: how many commands a line has
    MaxLines,   \* bound: how many lines the user types
    Items,      \* how much a source writes
    PipeCap     \* how much a pipe holds

(* The programs that are run are not of this repository.  A source writes  *)
(* Items items; yes writes for ever; a filter passes on what it reads up   *)
(* to its end, head only the first item; idle does not read; a missing     *)
(* program cannot be executed.                                             *)
Kind == {"source", "yes", "filter", "head", "idle", "missing"}
Early == {"head", "idle", "missing"}    \* ends whatever it is given

ASSUME PipelineAssumption ==
    /\ MaxCommands \in Nat \ {0} /\ MaxLines \in Nat /\ Items \in Nat
    /\ PipeCap \in Nat \ {0}
    /\ Lines \subseteq UNION {[1..n -> Kind] : n \in 0..MaxCommands}

(* Only then does the line end in any shell.                               *)
ASSUME EndlessIsCutOff ==
    \A l \in Lines : \A c \in DOMAIN l :
        l[c] = "yes" => \E d \in DOMAIN l : d > c /\ l[d] \in Early

VARIABLES
    tty,        \* whether stdin and stdout are a terminal
    lines,      \* how many lines were read
    line,       \* the commands of the line
    stage,      \* the shell: "prompt", "pipe", "fork", "close", "wait", "done"
    next,       \* the command it forks or waits for
    ends,       \* ends[p]: the ends <<i, e>> in the array pipes of process p
    std,        \* std[c]: the pipes behind stdin and stdout of c, 0: none
    proc,       \* the children, see PipeTypeOK
    hand,       \* the author of what a command has still to write, 0: nothing
    pipe,       \* what is in the pipes
    (* history *)
    wrote,      \* how many items command c has written (yes: whether any)
    received    \* who wrote what command c has read

shellState == <<tty, lines, line, stage, next>>
dataState  == <<hand, pipe, wrote, received>>
pipeVars   == <<shellState, ends, std, proc, dataState>>

Commands == 1..MaxCommands
Pipes    == 1..(MaxCommands - 1)     \* pipe i leads from command i to i + 1
Shell    == 0
Prompt   == MaxCommands + 1          \* tag of the text of the shell
NoPipes  == [in |-> 0, out |-> 0]
Count    == Len(line)

AllEnds(n) == (1..(n - 1)) \X {"r", "w"}

PipeInit ==
    /\ tty \in BOOLEAN
    /\ lines = 0 /\ line = <<>> /\ stage = "prompt" /\ next = 1
    /\ ends = [p \in {Shell} \cup Commands |-> {}]
    /\ std = [c \in Commands |-> NoPipes]
    /\ proc = [c \in Commands |-> "none"]
    /\ hand = [c \in Commands |-> 0]
    /\ pipe = [i \in Pipes |-> <<>>]
    /\ wrote = [c \in Commands |-> 0]
    /\ received = [c \in Commands |-> <<>>]

-----------------------------------------------------------------------------
(* The shell.                                                              *)

(* exit, or the end of the input.                                          *)
Leave ==
    /\ stage = "prompt"
    /\ stage' = "done"
    /\ UNCHANGED <<tty, lines, line, next, ends, std, proc, dataState>>

(* A line without a command makes pipeline_handler declare an array of -1  *)
(* pipes: either nothing else happens, or the shell faults.                *)
ReadLine(l) ==
    /\ stage = "prompt" /\ lines < MaxLines
    /\ lines' = lines + 1
    /\ line' = l /\ next' = 1
    /\ stage' \in IF l = <<>> THEN {"prompt", "done"}
                  ELSE IF Len(l) = 1 THEN {"fork"} ELSE {"pipe"}
    /\ wrote' = [c \in Commands |-> 0] /\ received' = [c \in Commands |-> <<>>]
    /\ UNCHANGED <<tty, ends, std, proc, hand, pipe>>

MakePipes ==
    /\ stage = "pipe"
    /\ ends' = [ends EXCEPT ![Shell] = AllEnds(Count)]
    /\ pipe' = [i \in Pipes |-> <<>>]
    /\ stage' = "fork"
    /\ UNCHANGED <<tty, lines, line, next, std, proc, hand, wrote, received>>

(* pipe or fork fails: the shell ends, and leaves the children it has.     *)
Fails ==
    /\ stage \in {"pipe", "fork"}
    /\ stage' = "done"
    /\ ends' = [ends EXCEPT ![Shell] = {}]
    /\ UNCHANGED <<tty, lines, line, next, std, proc, dataState>>

(* The child has the ends that the shell has at this moment; the shell     *)
(* closes those which the child was the last to need.                      *)
Fork ==
    /\ stage = "fork"
    /\ proc' = [proc EXCEPT ![next] = IF Count = 1 THEN "exec" ELSE "start"]
    /\ ends' = [ends EXCEPT
           ![next] = ends[Shell],
           ![Shell] = @ \ {<<next - 1, "r">>, <<next, "w">>}]
    /\ next' = IF next = Count THEN 1 ELSE next + 1
    /\ stage' = IF next < Count THEN "fork"
                ELSE IF Count = 1 THEN "wait" ELSE "close"
    /\ UNCHANGED <<tty, lines, line, std, dataState>>

CloseRest ==
    /\ stage = "close"
    /\ ends' = [ends EXCEPT ![Shell] = @ \ AllEnds(Count)]
    /\ stage' = "wait"
    /\ UNCHANGED <<tty, lines, line, next, std, proc, dataState>>

(* Fault: the last command is not waited for.                              *)
Wait_NotTheLast ==
    /\ stage = "wait" /\ proc[next] = "ended"
    /\ proc' = [proc EXCEPT ![next] = "none"]
    /\ stage' = IF next + 1 >= Count THEN "prompt" ELSE "wait"
    /\ next' = IF next + 1 >= Count THEN 1 ELSE next + 1
    /\ UNCHANGED <<tty, lines, line, ends, std, dataState>>

Wait ==
    /\ stage = "wait" /\ proc[next] = "ended"
    /\ proc' = [proc EXCEPT ![next] = "none"]
    /\ stage' = IF next = Count THEN "prompt" ELSE "wait"
    /\ next' = IF next = Count THEN 1 ELSE next + 1
    /\ UNCHANGED <<tty, lines, line, ends, std, dataState>>

ShellGoesOn == MakePipes \/ Fails \/ Fork \/ CloseRest \/ Wait

-----------------------------------------------------------------------------
(* A child, up to its execvp.                                              *)

(* Fault: i > 1, the second command keeps the stdin of the shell.          *)
Redirect_NotTheSecond(c) ==
    LET in  == IF c > 2 THEN c - 1 ELSE 0
        out == IF c < Count THEN c ELSE 0
    IN  /\ proc[c] = "start"
        /\ proc' = [proc EXCEPT ![c] = "close"]
        /\ std' = [std EXCEPT ![c] = [in |-> in, out |-> out]]
        /\ ends' = [ends EXCEPT ![c] = @ \ {<<in, "r">>, <<out, "w">>}]
        /\ UNCHANGED <<shellState, dataState>>

Redirect(c) ==
    LET in  == IF c > 1 THEN c - 1 ELSE 0
        out == IF c < Count THEN c ELSE 0
    IN  /\ proc[c] = "start"
        /\ proc' = [proc EXCEPT ![c] = "close"]
        /\ std' = [std EXCEPT ![c] = [in |-> in, out |-> out]]
        /\ ends' = [ends EXCEPT ![c] = @ \ {<<in, "r">>, <<out, "w">>}]
        /\ UNCHANGED <<shellState, dataState>>

(* Fault: j < *count - 2, the last pipe stays open.                        *)
CloseAll_ButTheLast(c) ==
    /\ proc[c] = "close"
    /\ proc' = [proc EXCEPT ![c] = "exec"]
    /\ ends' = [ends EXCEPT ![c] = @ \ AllEnds(Count - 1)]
    /\ UNCHANGED <<shellState, std, dataState>>

CloseAll(c) ==
    /\ proc[c] = "close"
    /\ proc' = [proc EXCEPT ![c] = "exec"]
    /\ ends' = [ends EXCEPT ![c] = @ \ AllEnds(Count)]
    /\ UNCHANGED <<shellState, std, dataState>>

(* After a failed execvp exit writes what is buffered for stdout: the      *)
(* prompt, unless stdout was a terminal when it was printed.               *)
Exec(c) ==
    /\ proc[c] = "exec"
    /\ IF line[c] # "missing"
       THEN proc' = [proc EXCEPT ![c] = "run"] /\ UNCHANGED hand
       ELSE /\ proc' = [proc EXCEPT ![c] = "exit"]
            /\ hand' = [hand EXCEPT ![c] = IF tty THEN 0 ELSE Prompt]
    /\ UNCHANGED <<shellState, ends, std, pipe, wrote, received>>

-----------------------------------------------------------------------------
(* The programs and the kernel: external.                                  *)

Holds(p, i, e) ==
    \/ <<i, e>> \in ends[p]
    \/ p # Shell /\ (IF e = "r" THEN std[p].in ELSE std[p].out) = i

HasEnd(i, e) == \E p \in {Shell} \cup Commands : Holds(p, i, e)

Exits(c) ==
    /\ proc' = [proc EXCEPT ![c] = "ended"]
    /\ ends' = [ends EXCEPT ![c] = {}]
    /\ std' = [std EXCEPT ![c] = NoPipes]
    /\ hand' = [hand EXCEPT ![c] = 0]

(* An item of the author t goes to stdout: to the terminal, into the pipe  *)
(* when there is room, or it ends the program by SIGPIPE.                  *)
Emit(c, t) ==
    LET out == std[c].out
    IN  \/ out = 0 /\ UNCHANGED pipe
        \/ /\ out # 0 /\ HasEnd(out, "r") /\ Len(pipe[out]) < PipeCap
           /\ pipe' = [pipe EXCEPT ![out] = Append(@, t)]

Breaks(c) == std[c].out # 0 /\ ~HasEnd(std[c].out, "r")

HasMore(c) ==
    /\ proc[c] \in {"run", "exit"}
    /\ \/ hand[c] # 0
       \/ line[c] = "yes"
       \/ line[c] = "source" /\ wrote[c] < Items

WriteItem(c) ==
    /\ HasMore(c)
    /\ \/ /\ Emit(c, IF hand[c] = Prompt THEN Prompt ELSE c)
          /\ hand' = [hand EXCEPT ![c] = 0]
          /\ wrote' = [wrote EXCEPT ![c] =
                           IF line[c] = "yes" THEN 1 ELSE @ + 1]
          /\ UNCHANGED <<shellState, ends, std, proc, received>>
       \/ Breaks(c) /\ Exits(c) /\ UNCHANGED <<shellState, pipe, wrote, received>>

Reads(c) ==
    /\ proc[c] = "run" /\ hand[c] = 0
    /\ \/ line[c] = "filter"
       \/ line[c] = "head" /\ received[c] = <<>>

ReadItem(c) ==
    LET in == std[c].in
    IN  /\ Reads(c) /\ in # 0 /\ pipe[in] # <<>>
        /\ received' = [received EXCEPT ![c] = Append(@, Head(pipe[in]))]
        /\ pipe' = [pipe EXCEPT ![in] = Tail(@)]
        /\ hand' = [hand EXCEPT ![c] = c]
        /\ UNCHANGED <<shellState, ends, std, proc, wrote>>

(* The user ends what a command reads from the terminal.                   *)
AtEnd(c) ==
    \/ std[c].in = 0
    \/ std[c].in # 0 /\ pipe[std[c].in] = <<>> /\ ~HasEnd(std[c].in, "w")

Finish(c) ==
    /\ hand[c] = 0
    /\ \/ proc[c] = "exit"
       \/ Reads(c) /\ AtEnd(c)
       \/ proc[c] = "run" /\ ~Reads(c) /\ ~HasMore(c)
    /\ Exits(c)
    /\ UNCHANGED <<shellState, pipe, wrote, received>>

Child(c) ==
    Redirect(c) \/ CloseAll(c) \/ Exec(c) \/ WriteItem(c) \/ ReadItem(c)
    \/ Finish(c)

-----------------------------------------------------------------------------
PipeNext ==
    \/ Leave \/ (\E l \in Lines : ReadLine(l)) \/ ShellGoesOn
    \/ \E c \in Commands : Child(c)

(* The processes are scheduled; the user need not type.                    *)
PipeFairness ==
    WF_pipeVars(ShellGoesOn) /\ \A c \in Commands : WF_pipeVars(Child(c))

PipeSpec == PipeInit /\ [][PipeNext]_pipeVars

-----------------------------------------------------------------------------
PipeTypeOK ==
    /\ tty \in BOOLEAN /\ lines \in 0..MaxLines
    /\ line \in Lines \cup {<<>>}
    /\ stage \in {"prompt", "pipe", "fork", "close", "wait", "done"}
    /\ next \in Commands
    /\ ends \in [{Shell} \cup Commands -> SUBSET (Pipes \X {"r", "w"})]
    /\ std \in [Commands -> [in : 0..MaxCommands, out : 0..MaxCommands]]
    /\ proc \in [Commands ->
           {"none", "start", "close", "exec", "run", "exit", "ended"}]
    /\ hand \in [Commands -> 0..Prompt]
    /\ pipe \in [Pipes -> Seq(1..Prompt)]
    /\ wrote \in [Commands -> Nat] /\ received \in [Commands -> Seq(1..Prompt)]

(* Each line that could end does end, and the shell asks for the next one: *)
(* no reader waits for the end of a pipe, and no writer for room in it,    *)
(* because of a descriptor that somebody has forgotten to close, whichever *)
(* child is how far (main.c 183-195, 202-225).                             *)
LineEnds == stage \in {"pipe", "fork", "close", "wait"} ~> stage \in {"prompt", "done"}

(* At the prompt nothing is left of a line: the shell holds no end of a    *)
(* pipe and every child has been waited for, also those that ended before  *)
(* their neighbours (main.c 202-225).                                      *)
NothingLeft ==
    stage = "prompt" =>
        /\ ends[Shell] = {}
        /\ \A c \in Commands : proc[c] = "none"

(* Who executes its command holds the reading end of the pipe before it    *)
(* and the writing end of the pipe behind it and no other, whichever ends  *)
(* the shell still had when it was forked; the ended and the shell that    *)
(* waits hold none (main.c 183-195, 202-225).                              *)
OwnEndsOnly ==
    \A i \in Pipes :
        /\ stage = "wait" => ~Holds(Shell, i, "r") /\ ~Holds(Shell, i, "w")
        /\ \A c \in Commands :
              /\ proc[c] \in {"exec", "run", "exit"} =>
                    /\ Holds(c, i, "r") <=> i = c - 1
                    /\ Holds(c, i, "w") <=> i = c /\ c < Count
              /\ proc[c] \in {"none", "ended"} =>
                    ~Holds(c, i, "r") /\ ~Holds(c, i, "w")

(* A command reads nothing but what its left neighbour has written, and a  *)
(* filter that has come to its end has read it all; when the shell has no  *)
(* terminal, the prompt of the shell may be among it (main.c 26, 183-200). *)
NeighbourReads ==
    \A c \in Commands :
        /\ \A k \in DOMAIN received[c] :
              received[c][k] = c - 1 \/ (~tty /\ received[c][k] = Prompt)
        /\ proc[c] = "ended" /\ c > 1 /\ c = Count /\ line[c] = "filter"
           => Len(received[c]) = wrote[c - 1]
=============================================================================
