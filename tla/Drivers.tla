------------------------------- MODULE Drivers -------------------------------
(***************************************************************************)
(* task_drivers: a shell that forks driver processes and talks to each     *)
(* over a pair of pipes.  A driver is free or busy with a task, that is,   *)
(* with a timer; get_status and get_drivers ask it.  The reads of the      *)
(* shell block, and it handles one command at a time.                      *)
(***************************************************************************)
EXTENDS Naturals, Sequences, FiniteSets, Functions

CONSTANTS
    MaxDrivers, \* MAX_DRIVERS
    MaxTasks,   \* bound: how many tasks the user sends
    ZeroTasks   \* what a driver may take a task with the time 0 for

(* What the driver makes of a struct msg: a task when time is not 0, which *)
(* gets no timer when time is negative, else what stat says.  send_task    *)
(* leaves stat as it is on the stack.                                      *)
Tasks   == {"task", "untimed"}
Request == Tasks \cup {"query", "end", "ignored"}
Reply   == [stat : 0..1, left : BOOLEAN]

ASSUME DriversAssumption ==
    /\ MaxDrivers \in Nat \ {0} /\ MaxTasks \in Nat
    /\ ZeroTasks \subseteq Request \ Tasks

VARIABLES
    ndrivers,   \* how many drivers were created
    shellPc,    \* "prompt", "ask", "reply", "astray", "quit", "wait" or
                \* "done"
    index,      \* the driver the shell is dealing with
    last,       \* the last driver it has to deal with
    tasks,      \* how many tasks were sent
    (* driver d *)
    in, out,    \* the pipes to and from it
    drvPc,      \* "none", "select", "timer", "read" or "gone"
    status,     \* 0: available, 1: busy
    timer,      \* "off", "armed" or "expired", which lasts until it is set
    pending     \* whether select has found its input pipe readable

shell  == <<ndrivers, shellPc, index, last, tasks>>
driver == <<drvPc, status, timer, pending>>
vars   == <<shell, in, out, driver>>

Index   == 1..MaxDrivers
Running == 1..ndrivers

Init ==
    /\ ndrivers = 0 /\ shellPc = "prompt" /\ index = 1 /\ last = 1
    /\ tasks = 0
    /\ in = [d \in Index |-> <<>>] /\ out = [d \in Index |-> <<>>]
    /\ drvPc = [d \in Index |-> "none"]
    /\ status = [d \in Index |-> 0]
    /\ timer = [d \in Index |-> "off"]
    /\ pending = [d \in Index |-> FALSE]

(* The shell writes to driver d and goes on.  A write to a driver that is  *)
(* gone kills it (SIGPIPE).                                                *)
Tell(d, request, next) ==
    IF drvPc[d] = "gone"
    THEN shellPc' = "done" /\ UNCHANGED in
    ELSE shellPc' = next /\ in' = [in EXCEPT ![d] = Append(@, request)]

-----------------------------------------------------------------------------
(* The commands of the user.                                               *)

CreateDriver ==
    /\ shellPc = "prompt" /\ ndrivers < MaxDrivers
    /\ ndrivers' = ndrivers + 1
    /\ drvPc' = [drvPc EXCEPT ![ndrivers + 1] = "select"]
    /\ UNCHANGED <<shellPc, index, last, tasks, in, out, status, timer,
                   pending>>

(* The user names driver d by its pid; 0 stands for a pid the shell does   *)
(* not know.  It then takes descriptors out of the line typed, in front of *)
(* the pipes: 0, or four characters that no descriptor has for a number.   *)
(* So the task is lost, and for a status the shell reads the terminal.     *)
SendTask(d) ==
    /\ shellPc = "prompt" /\ d \in {0} \cup Running /\ tasks < MaxTasks
    /\ tasks' = tasks + 1
    /\ IF d = 0 THEN UNCHANGED <<shellPc, in>>
       ELSE \E request \in Tasks \cup ZeroTasks : Tell(d, request, "prompt")
    /\ UNCHANGED <<ndrivers, index, last, out, driver>>

Ask(first, final) ==
    /\ shellPc = "prompt"
    /\ shellPc' = "ask"
    /\ index' = first /\ last' = final
    /\ UNCHANGED <<ndrivers, tasks, in, out, driver>>

AskNobody ==
    /\ shellPc = "prompt"
    /\ shellPc' = "astray"
    /\ UNCHANGED <<ndrivers, index, last, tasks, in, out, driver>>

(* A line of the user ends the read of the terminal, and is lost.          *)
LoseLine ==
    /\ shellPc = "astray"
    /\ shellPc' = "prompt"
    /\ UNCHANGED <<ndrivers, index, last, tasks, in, out, driver>>

GetStatus(d) == IF d = 0 THEN AskNobody ELSE d \in Running /\ Ask(d, d)
GetDrivers   == ndrivers > 0 /\ Ask(1, ndrivers)

Quit ==
    /\ shellPc = "prompt"
    /\ shellPc' = IF ndrivers = 0 THEN "done" ELSE "quit"
    /\ index' = 1 /\ last' = ndrivers
    /\ UNCHANGED <<ndrivers, tasks, in, out, driver>>

UserActs ==
    \/ CreateDriver \/ GetDrivers \/ Quit \/ LoseLine
    \/ \E d \in {0} \cup Index : SendTask(d) \/ GetStatus(d)

-----------------------------------------------------------------------------
(* The rest of a command.                                                  *)

ShellAsks ==
    /\ shellPc = "ask"
    /\ Tell(index, "query", "reply")
    /\ UNCHANGED <<ndrivers, index, last, tasks, out, driver>>

(* read blocks while the pipe is empty, and returns without anything when  *)
(* the driver is gone.                                                     *)
ShellReads ==
    /\ shellPc = "reply"
    /\ out[index] # <<>> \/ drvPc[index] = "gone"
    /\ out' = [out EXCEPT ![index] = IF @ = <<>> THEN @ ELSE Tail(@)]
    /\ shellPc' = IF index = last THEN "prompt" ELSE "ask"
    /\ index' = IF index = last THEN index ELSE index + 1
    /\ UNCHANGED <<ndrivers, last, tasks, in, driver>>

(* Fault: the loop stops before the last driver.                           *)
ShellEnds_NotTheLast ==
    /\ shellPc = "quit"
    /\ IF index = last
       THEN shellPc' = "wait" /\ UNCHANGED in
       ELSE Tell(index, "end", "quit")
    /\ index' = IF index = last THEN 1 ELSE index + 1
    /\ UNCHANGED <<ndrivers, last, tasks, out, driver>>

ShellEnds ==
    /\ shellPc = "quit"
    /\ Tell(index, "end", IF index = last THEN "wait" ELSE "quit")
    /\ index' = IF index = last THEN 1 ELSE index + 1
    /\ UNCHANGED <<ndrivers, last, tasks, out, driver>>

(* waitpid.                                                                *)
ShellWaits ==
    /\ shellPc = "wait" /\ drvPc[index] = "gone"
    /\ shellPc' = IF index = last THEN "done" ELSE "wait"
    /\ index' = IF index = last THEN index ELSE index + 1
    /\ UNCHANGED <<ndrivers, last, tasks, in, out, driver>>

ShellRuns ==
    ShellAsks \/ ShellReads \/ ShellEnds \/ ShellWaits

-----------------------------------------------------------------------------
(* driver_handler of driver d.                                             *)

Step(d, from, to) ==
    /\ drvPc[d] = from
    /\ drvPc' = [drvPc EXCEPT ![d] = to]

(* The timer runs out; nobody reads it, so that it stays readable.         *)
Expire(d) ==
    /\ timer[d] = "armed" /\ drvPc[d] # "gone"
    /\ timer' = [timer EXCEPT ![d] = "expired"]
    /\ UNCHANGED <<shell, in, out, drvPc, status, pending>>

(* Fault: max_fd is the input pipe although the timer is above it.         *)
Select_PipeOnly(d) ==
    /\ in[d] # <<>>
    /\ Step(d, "select", "read")
    /\ pending' = [pending EXCEPT ![d] = TRUE]
    /\ UNCHANGED <<shell, in, out, status, timer>>

(* select: what is readable now is handled, the timer first.               *)
Select(d) ==
    /\ in[d] # <<>> \/ timer[d] = "expired"
    /\ Step(d, "select", IF timer[d] = "expired" THEN "timer" ELSE "read")
    /\ pending' = [pending EXCEPT ![d] = in[d] # <<>>]
    /\ UNCHANGED <<shell, in, out, status, timer>>

TaskOver(d) ==
    /\ Step(d, "timer", IF pending[d] THEN "read" ELSE "select")
    /\ status' = [status EXCEPT ![d] = 0]
    /\ UNCHANGED <<shell, in, out, timer, pending>>

Read(d, request) ==
    /\ in[d] # <<>> /\ Head(in[d]) = request
    /\ in' = [in EXCEPT ![d] = Tail(@)]

(* Fault: the timer is handled after the pipe, the task it had is over.    *)
NewTask_OldTimer(d) ==
    /\ Step(d, "read", "select")
    /\ Read(d, "task")
    /\ status' = [status EXCEPT ![d] = IF timer[d] = "expired" THEN 0 ELSE 1]
    /\ timer' = [timer EXCEPT ![d] = "armed"]
    /\ UNCHANGED <<shell, out, pending>>

(* Fault: the driver acknowledges the task.                                *)
NewTask_Acknowledged(d) ==
    /\ Step(d, "read", "select")
    /\ Read(d, "task")
    /\ status' = [status EXCEPT ![d] = 1]
    /\ timer' = [timer EXCEPT ![d] = "armed"]
    /\ out' = [out EXCEPT ![d] = Append(@, [stat |-> 1, left |-> TRUE])]
    /\ UNCHANGED <<shell, pending>>

NewTask(d) ==
    /\ Step(d, "read", "select")
    /\ Read(d, "task")
    /\ status' = [status EXCEPT ![d] = 1]
    /\ timer' = [timer EXCEPT ![d] = "armed"]
    /\ UNCHANGED <<shell, out, pending>>

(* With a negative time timerfd_settime fails, which nobody looks at: the  *)
(* timer stays as it was.                                                  *)
NewTaskUntimed(d) ==
    /\ Step(d, "read", "select")
    /\ Read(d, "untimed")
    /\ status' = [status EXCEPT ![d] = 1]
    /\ UNCHANGED <<shell, out, timer, pending>>

(* Fault: only a free driver answers.                                      *)
Answer_WhenFree(d) ==
    /\ Step(d, "read", "select")
    /\ Read(d, "query")
    /\ IF status[d] = 0
       THEN out' = [out EXCEPT ![d] = Append(@, [stat |-> 0, left |-> FALSE])]
       ELSE UNCHANGED out
    /\ UNCHANGED <<shell, status, timer, pending>>

Answer(d) ==
    /\ Step(d, "read", "select")
    /\ Read(d, "query")
    /\ out' = [out EXCEPT ![d] =
                  Append(@, [stat |-> status[d], left |-> timer[d] = "armed"])]
    /\ UNCHANGED <<shell, status, timer, pending>>

Ignore(d) ==
    /\ Step(d, "read", "select")
    /\ Read(d, "ignored")
    /\ UNCHANGED <<shell, out, status, timer, pending>>

End(d) ==
    /\ Step(d, "read", "gone")
    /\ Read(d, "end")
    /\ UNCHANGED <<shell, out, status, timer, pending>>

DriverRuns(d) ==
    \/ Select(d) \/ TaskOver(d) \/ NewTask(d) \/ NewTaskUntimed(d)
    \/ Answer(d) \/ Ignore(d) \/ End(d)

Next ==
    \/ UserActs \/ ShellRuns
    \/ \E d \in Index : DriverRuns(d) \/ Expire(d)

Spec == Init /\ [][Next]_vars

(* Processes are scheduled and timers run out; the user need do nothing.   *)
Fairness ==
    /\ WF_vars(ShellRuns)
    /\ \A d \in Index : WF_vars(DriverRuns(d)) /\ WF_vars(Expire(d))

FairSpec == Spec /\ Fairness

-----------------------------------------------------------------------------
TypeOK ==
    /\ ndrivers \in 0..MaxDrivers
    /\ shellPc \in {"prompt", "ask", "reply", "astray", "quit", "wait", "done"}
    /\ index \in Index /\ last \in 0..MaxDrivers
    /\ tasks \in 0..MaxTasks
    /\ in \in [Index -> Seq(Request)] /\ out \in [Index -> Seq(Reply)]
    /\ drvPc \in [Index -> {"none", "select", "timer", "read", "gone"}]
    /\ status \in [Index -> 0..1]
    /\ timer \in [Index -> {"off", "armed", "expired"}]
    /\ pending \in [Index -> BOOLEAN]

(* A driver whose timer runs is busy, whatever arrived while its last task *)
(* ran out: an expired timer is never read, but it is handled before the   *)
(* pipe and a new task rearms it (main.c 173-181).                         *)
ArmedIsBusy == \A d \in Index : timer[d] = "armed" => status[d] = 1

Questions(d) == {i \in DOMAIN in[d] : in[d][i] = "query"}

(* The shell and its drivers stay in step: a driver has a question or an   *)
(* answer under way only while the shell waits for this driver, and never  *)
(* two, so that get_status shows the answer to its own question            *)
(* (main.c 93-94, 124-125, 182-187).                                       *)
InStep ==
    \A d \in Index :
        Cardinality(Questions(d)) + Len(out[d]) =
            IF shellPc = "reply" /\ index = d THEN 1 ELSE 0

(* What the shell is about to read is true: a driver that says it is       *)
(* available has no task left, neither running nor in its pipe, although   *)
(* tasks are never acknowledged and their end is only seen at the next     *)
(* select (main.c 110-117, 173-187).                                       *)
AvailableIsFree ==
    \A d \in Index :
        out[d] # <<>> /\ Head(out[d]).stat = 0 =>
            status[d] = 0 /\ timer[d] # "armed" /\ Range(in[d]) \cap Tasks = {}

(* No question the shell has put to a driver waits for ever (main.c 94,    *)
(* 125).                                                                   *)
CommandEnds == shellPc = "reply" ~> shellPc \in {"prompt", "ask"}

(* A task is over some time: a busy driver whose timer was ever set is     *)
(* available again, unless it is told to end, also when a time it was      *)
(* given later is negative.  A driver that was only given negative times   *)
(* has no timer and stays busy for ever (main.c 173-181).                  *)
TaskEnds ==
    \A d \in Index :
        status[d] = 1 /\ timer[d] # "off" ~> status[d] = 0 \/ drvPc[d] = "gone"

(* quit ends the shell, and no driver outlives it (main.c 79-86, 188-193). *)
QuitEnds ==
    shellPc = "quit" ~> shellPc = "done" /\ \A d \in Running : drvPc[d] = "gone"
=============================================================================
