---------------------------- MODULE DriversProofs ----------------------------
(***************************************************************************)
(* ArmedIsBusy for any number of drivers and of tasks, also when a task    *)
(* with the time 0 is taken for a command; InStep and AvailableIsFree when *)
(* such a task is taken for no command.                                    *)
(***************************************************************************)
EXTENDS Drivers, SequenceTheorems, FiniteSetTheorems, TLAPS

(* The types of the variables a driver keeps to itself.                    *)
DriverTypeOK ==
    /\ status \in [Index -> 0..1]
    /\ timer \in [Index -> {"off", "armed", "expired"}]
    /\ drvPc \in [Index -> {"none", "select", "timer", "read", "gone"}]

(* A driver goes to "timer" only with an expired timer, and only itself    *)
(* sets the timer anew: it does not clear the status of a running task.    *)
TimerIsOver == \A d \in Index : drvPc[d] = "timer" => timer[d] = "expired"

BusyInv == DriverTypeOK /\ TimerIsOver /\ ArmedIsBusy

LEMMA BusyInit == Init => BusyInv
  BY DEF Init, BusyInv, DriverTypeOK, TimerIsOver, ArmedIsBusy

(* The shell does not touch what the drivers keep.                         *)
LEMMA BusyIdle ==
    ASSUME BusyInv, UNCHANGED <<drvPc, status, timer>> PROVE BusyInv'
  BY DEF BusyInv, DriverTypeOK, TimerIsOver, ArmedIsBusy

LEMMA BusyUser == ASSUME BusyInv, UserActs PROVE BusyInv'
<1>1. CASE CreateDriver
  BY <1>1 DEF CreateDriver, BusyInv, DriverTypeOK, TimerIsOver, ArmedIsBusy
<1>2. ASSUME NEW d \in {0} \cup Index, SendTask(d) PROVE BusyInv'
  BY <1>2, BusyIdle DEF SendTask, driver
<1>3. ASSUME NEW d \in {0} \cup Index, GetStatus(d) PROVE BusyInv'
  BY <1>3, BusyIdle DEF GetStatus, Ask, AskNobody, driver
<1>4. CASE GetDrivers
  BY <1>4, BusyIdle DEF GetDrivers, Ask, driver
<1>5. CASE Quit \/ LoseLine
  BY <1>5, BusyIdle DEF Quit, LoseLine, driver
<1> QED
  BY <1>1, <1>2, <1>3, <1>4, <1>5 DEF UserActs

LEMMA BusyShell == ASSUME BusyInv, ShellRuns PROVE BusyInv'
<1>1. CASE ShellAsks
  BY <1>1, BusyIdle DEF ShellAsks, driver
<1>2. CASE ShellReads
  BY <1>2, BusyIdle DEF ShellReads, driver
<1>3. CASE ShellEnds
  BY <1>3, BusyIdle DEF ShellEnds, driver
<1>4. CASE ShellWaits
  BY <1>4, BusyIdle DEF ShellWaits, driver
<1> QED
  BY <1>1, <1>2, <1>3, <1>4 DEF ShellRuns

LEMMA BusyDriver ==
    ASSUME BusyInv, NEW d \in Index, DriverRuns(d) \/ Expire(d) PROVE BusyInv'
<1> USE DEF BusyInv, DriverTypeOK, TimerIsOver, ArmedIsBusy, Step
<1>1. CASE Select(d)
  BY <1>1 DEF Select
<1>2. CASE TaskOver(d)
  BY <1>2 DEF TaskOver
<1>3. CASE NewTask(d)
  BY <1>3 DEF NewTask
<1>4. CASE Answer(d)
  BY <1>4 DEF Answer
<1>5. CASE Ignore(d)
  BY <1>5 DEF Ignore
<1>6. CASE End(d)
  BY <1>6 DEF End
<1>7. CASE Expire(d)
  BY <1>7 DEF Expire
<1>8. CASE NewTaskUntimed(d)
  BY <1>8 DEF NewTaskUntimed
<1> QED
  BY <1>1, <1>2, <1>3, <1>4, <1>5, <1>6, <1>7, <1>8 DEF DriverRuns

LEMMA BusyStep == ASSUME BusyInv, [Next]_vars PROVE BusyInv'
<1>1. CASE UNCHANGED vars
  BY <1>1, BusyIdle DEF vars, driver
<1> QED
  BY <1>1, BusyUser, BusyShell, BusyDriver DEF Next

(* A driver whose timer runs is busy: the order in which one iteration     *)
(* handles the timer and the pipe never clears the status of a task that   *)
(* has just begun (main.c 173-181).                                        *)
THEOREM ArmedIsBusyAlways == Spec => []ArmedIsBusy
<1>1. BusyInv /\ [Next]_vars => BusyInv'
  BY BusyStep
<1>2. BusyInv => ArmedIsBusy
  BY DEF BusyInv
<1> QED
  BY BusyInit, <1>1, <1>2, PTL DEF Spec

-----------------------------------------------------------------------------
(* InStep and AvailableIsFree.                                             *)

NoneOf(s, x) == \A i \in DOMAIN s : s[i] # x

(* What lies in the pipes of a driver: nothing that belongs to a question, *)
(* a question that nothing follows, or the answer, with nothing more to    *)
(* do for the driver and no task left if it says so.                       *)
Quiet(d) == out[d] = <<>> /\ NoneOf(in[d], "query")

Asking(d) ==
    /\ out[d] = <<>> /\ in[d] # <<>>
    /\ \A i \in DOMAIN in[d] : in[d][i] = "query" <=> i = Len(in[d])

Answered(d) ==
    /\ Len(out[d]) = 1 /\ in[d] = <<>>
    /\ Head(out[d]).stat = 0 => status[d] = 0 /\ timer[d] # "armed"

LockStep ==
    \A d \in Index :
        IF shellPc = "reply" /\ index = d THEN Asking(d) \/ Answered(d)
        ELSE Quiet(d)

(* No driver ends before the user quits.                                   *)
Everyone ==
    shellPc \in {"prompt", "ask", "reply", "astray"} =>
        \A d \in Index : drvPc[d] # "gone" /\ NoneOf(in[d], "end")

PipesForm ==
    /\ in \in [Index -> Seq(Request)] /\ out \in [Index -> Seq(Reply)]
    /\ shellPc \in {"prompt", "ask", "reply", "astray", "quit", "wait", "done"}

StepInv == BusyInv /\ PipesForm /\ Everyone /\ LockStep

LEMMA NoneAppended ==
    ASSUME NEW S, NEW s \in Seq(S), NEW e \in S, NEW x, NoneOf(s, x), e # x
    PROVE  NoneOf(Append(s, e), x)
  BY AppendProperties, LenProperties DEF NoneOf

LEMMA NoneLeft ==
    ASSUME NEW S, NEW s \in Seq(S), s # <<>>, NEW x, NoneOf(s, x)
    PROVE  NoneOf(Tail(s), x)
  BY HeadTailProperties, LenProperties DEF NoneOf

LEMMA TailEmpty ==
    ASSUME NEW S, NEW s \in Seq(S), s # <<>>
    PROVE  Tail(s) = <<>> <=> Len(s) = 1
<1>1. Tail(s) \in Seq(S) /\ Len(Tail(s)) = Len(s) - 1 /\ Len(s) \in Nat
  BY HeadTailProperties, LenProperties
<1>2. Tail(s) = <<>> => Len(Tail(s)) = 0
  BY EmptySeq
<1>3. Tail(s) # <<>> => Len(Tail(s)) # 0
  BY <1>1, EmptySeq
<1> QED
  BY <1>1, <1>2, <1>3

LEMMA StepInit == Init => StepInv
<1> SUFFICES ASSUME Init PROVE StepInv
  OBVIOUS
<1>1. PipesForm
  BY EmptySeq DEF Init, PipesForm
<1> QED
  BY <1>1, BusyInit DEF Init, StepInv, Everyone, LockStep, Quiet, NoneOf

(* A step that touches nothing in the pipes.                               *)
LEMMA StepIdle ==
    ASSUME StepInv, BusyInv', UNCHANGED <<in, out, status, timer>>,
           \A d \in Index : drvPc'[d] = "gone" => drvPc[d] = "gone",
           \/ UNCHANGED <<shellPc, index>>
           \/ /\ shellPc \notin {"reply", "done"}
              /\ shellPc' \in {"prompt", "ask", "astray", "quit", "wait", "done"}
              /\ shellPc \in {"quit", "wait"} => shellPc' \in {"wait", "quit", "done"}
    PROVE  StepInv'
<1>1. PipesForm'
  BY DEF StepInv, PipesForm
<1>2. Everyone'
  BY DEF StepInv, Everyone, PipesForm
<1>3. LockStep'
  BY DEF StepInv, LockStep, Quiet, Asking, Answered
<1> QED
  BY <1>1, <1>2, <1>3 DEF StepInv

(* The shell sends a task that is one, or that the driver ignores.         *)
LEMMA StepTask ==
    ASSUME ZeroTasks \subseteq {"ignored"}, StepInv, BusyInv',
           NEW d \in Index, SendTask(d)
    PROVE  StepInv'
<1>0. d # 0 /\ drvPc[d] # "gone"
  BY DEF SendTask, StepInv, Everyone, Index
<1>1. PICK request \in {"task", "untimed", "ignored"} :
         /\ in' = [in EXCEPT ![d] = Append(@, request)]
         /\ shellPc' = "prompt"
  BY <1>0 DEF SendTask, Tell, Tasks
<1>2. shellPc = "prompt" /\ UNCHANGED <<shellPc, index, out, drvPc, status, timer>>
  BY <1>1 DEF SendTask, driver
<1>3. in[d] \in Seq(Request) /\ request \in Request
  BY DEF StepInv, PipesForm, Request, Tasks
<1>4. /\ in'[d] = Append(in[d], request) /\ in'[d] \in Seq(Request)
      /\ \A e \in Index \ {d} : in'[e] = in[e]
  BY <1>1, <1>3, AppendProperties DEF StepInv, PipesForm
<1>5. PipesForm'
  BY <1>1, <1>2, <1>4 DEF StepInv, PipesForm
<1>6. NoneOf(in'[d], "end") /\ NoneOf(in'[d], "query")
  <2>1. NoneOf(in[d], "end") /\ NoneOf(in[d], "query")
    BY <1>2 DEF StepInv, Everyone, LockStep, Quiet
  <2> QED
    BY <1>3, <1>4, <2>1, NoneAppended
<1>7. Everyone'
  BY <1>2, <1>4, <1>6 DEF StepInv, Everyone
<1>8. LockStep'
  BY <1>2, <1>4, <1>6 DEF StepInv, LockStep, Quiet
<1> QED
  BY <1>5, <1>7, <1>8 DEF StepInv

(* A question is behind everything that was sent before.                   *)
LEMMA StepAsks == ASSUME StepInv, BusyInv', ShellAsks PROVE StepInv'
<1>1. shellPc = "ask" /\ UNCHANGED <<index, out, drvPc, status, timer>>
  BY DEF ShellAsks, driver
<1>2. CASE index \in Index
  <2>1. drvPc[index] # "gone"
    BY <1>1, <1>2 DEF StepInv, Everyone
  <2>2. shellPc' = "reply" /\ in' = [in EXCEPT ![index] = Append(@, "query")]
    BY <2>1 DEF ShellAsks, Tell
  <2>3. in[index] \in Seq(Request) /\ "query" \in Request
    BY <1>2 DEF StepInv, PipesForm, Request, Tasks
  <2>4. /\ in'[index] = Append(in[index], "query") /\ in'[index] \in Seq(Request)
        /\ \A e \in Index \ {index} : in'[e] = in[e]
    BY <1>2, <2>2, <2>3, AppendProperties DEF StepInv, PipesForm
  <2>5. PipesForm'
    BY <1>1, <2>2, <2>4 DEF StepInv, PipesForm
  <2>6. NoneOf(in[index], "end") /\ Quiet(index)
    BY <1>1, <1>2 DEF StepInv, Everyone, LockStep
  <2>7. Everyone'
    <3>1. NoneOf(in'[index], "end")
      BY <2>3, <2>4, <2>6, NoneAppended
    <3> QED
      BY <1>1, <2>2, <2>4, <3>1 DEF StepInv, Everyone
  <2>8. Asking(index)'
    <3>1. /\ in'[index] # <<>> /\ Len(in'[index]) = Len(in[index]) + 1
          /\ DOMAIN in'[index] = 1..(Len(in[index]) + 1) /\ Len(in[index]) \in Nat
          /\ in'[index][Len(in[index]) + 1] = "query"
          /\ \A i \in 1..Len(in[index]) : in'[index][i] = in[index][i]
      BY <2>3, <2>4, AppendProperties, LenProperties
    <3>2. \A i \in 1..Len(in[index]) : in[index][i] # "query"
      BY <2>3, <2>6, LenProperties DEF Quiet, NoneOf
    <3> QED
      BY <1>1, <2>6, <3>1, <3>2 DEF Asking, Quiet
  <2>9. \A e \in Index \ {index} : Quiet(e)'
    BY <1>1, <2>4 DEF StepInv, LockStep, Quiet
  <2> QED
    BY <1>1, <2>2, <2>5, <2>7, <2>8, <2>9 DEF StepInv, LockStep
<1>3. CASE index \notin Index
  <2>1. shellPc' \in {"done", "reply"} /\ \A d \in Index : in'[d] = in[d]
    BY <1>3 DEF ShellAsks, Tell, StepInv, PipesForm
  <2>2. in' \in [Index -> Seq(Request)]
    BY <1>3 DEF ShellAsks, Tell, StepInv, PipesForm
  <2>3. PipesForm'
    BY <1>1, <2>1, <2>2 DEF StepInv, PipesForm
  <2>4. LockStep' /\ Everyone'
    BY <1>1, <1>3, <2>1 DEF StepInv, LockStep, Everyone, Quiet
  <2> QED
    BY <2>3, <2>4 DEF StepInv
<1> QED
  BY <1>2, <1>3

(* The shell reads the one answer there is.                                *)
LEMMA StepReads == ASSUME StepInv, BusyInv', ShellReads PROVE StepInv'
<1>1. /\ shellPc = "reply" /\ shellPc' \in {"prompt", "ask"}
      /\ UNCHANGED <<in, drvPc, status, timer>>
      /\ out' = [out EXCEPT ![index] = IF @ = <<>> THEN @ ELSE Tail(@)]
  BY DEF ShellReads, driver
<1>2. \A d \in Index : Quiet(d)'
  <2>1. ASSUME NEW d \in Index, d # index PROVE Quiet(d)'
    BY <1>1, <2>1 DEF StepInv, LockStep, Quiet, PipesForm
  <2>2. ASSUME NEW d \in Index, d = index PROVE Quiet(d)'
    <3>1. out[d] # <<>>
      BY <1>1, <2>2 DEF ShellReads, StepInv, Everyone
    <3>2. Answered(d)
      BY <1>1, <2>2, <3>1 DEF StepInv, LockStep, Asking
    <3>3. out[d] \in Seq(Reply) /\ out'[d] = Tail(out[d])
      BY <1>1, <2>2, <3>1 DEF StepInv, PipesForm
    <3>4. Len(Tail(out[d])) = 0 /\ Tail(out[d]) \in Seq(Reply)
      BY <3>1, <3>2, <3>3, HeadTailProperties DEF Answered
    <3>5. out'[d] = <<>>
      BY <3>3, <3>4, EmptySeq
    <3> QED
      BY <1>1, <3>2, <3>5 DEF Answered, Quiet, NoneOf
  <2> QED
    BY <2>1, <2>2
<1>3. PipesForm'
  <2>1. \A d \in Index : out'[d] = <<>>
    BY <1>2 DEF Quiet
  <2>2. DOMAIN out' = Index /\ out' = [d \in Index |-> out'[d]]
    BY <1>1 DEF StepInv, PipesForm
  <2>3. out' \in [Index -> Seq(Reply)]
    <3>1. <<>> \in Seq(Reply)
      BY EmptySeq
    <3>2. \A d \in Index : out'[d] \in Seq(Reply)
      BY <2>1, <3>1
    <3> QED
      BY <2>2, <3>2
  <2> QED
    BY <1>1, <2>3 DEF StepInv, PipesForm
<1>4. Everyone'
  BY <1>1 DEF StepInv, Everyone
<1> QED
  BY <1>1, <1>2, <1>3, <1>4 DEF StepInv, LockStep

LEMMA StepEnds == ASSUME StepInv, BusyInv', ShellEnds PROVE StepInv'
<1>1. /\ shellPc = "quit" /\ shellPc' \in {"wait", "quit", "done"}
      /\ UNCHANGED <<out, drvPc, status, timer>>
  BY DEF ShellEnds, Tell, driver
<1>2. \A d \in Index : in'[d] = in[d] \/ in'[d] = Append(in[d], "end")
  BY DEF ShellEnds, Tell, StepInv, PipesForm
<1>3. \A d \in Index : in'[d] \in Seq(Request) /\ NoneOf(in'[d], "query")
  <2>1. ASSUME NEW d \in Index PROVE in'[d] \in Seq(Request) /\ NoneOf(in'[d], "query")
    <3>1. in[d] \in Seq(Request) /\ "end" \in Request
      BY DEF StepInv, PipesForm, Request, Tasks
    <3>2. NoneOf(in[d], "query")
      BY <1>1 DEF StepInv, LockStep, Quiet
    <3>3. NoneOf(Append(in[d], "end"), "query")
      BY <3>1, <3>2, NoneAppended
    <3>4. Append(in[d], "end") \in Seq(Request)
      BY <3>1, AppendProperties
    <3> QED
      BY <1>2, <3>1, <3>2, <3>3, <3>4
  <2> QED
    BY <2>1
<1>4. PipesForm'
  <2>1. in' = [d \in Index |-> in'[d]]
    BY DEF ShellEnds, Tell, StepInv, PipesForm
  <2> QED
    BY <1>1, <1>3, <2>1 DEF StepInv, PipesForm
<1>5. Everyone' /\ LockStep'
  BY <1>1, <1>3 DEF StepInv, Everyone, LockStep, Quiet
<1> QED
  BY <1>4, <1>5 DEF StepInv

(* A driver takes something that is not a question out of its pipe.        *)
LEMMA StepTakes ==
    ASSUME StepInv, BusyInv', NEW d \in Index, NEW request \in Request \ {"query"},
           Read(d, request), UNCHANGED <<shellPc, index, out>>,
           \A e \in Index \ {d} : /\ status'[e] = status[e] /\ timer'[e] = timer[e]
                                  /\ drvPc'[e] = drvPc[e],
           request # "end" => drvPc'[d] # "gone"
    PROVE  StepInv'
<1>1. /\ in[d] # <<>> /\ Head(in[d]) = request /\ in[d] \in Seq(Request)
      /\ in'[d] = Tail(in[d]) /\ \A e \in Index \ {d} : in'[e] = in[e]
      /\ in' = [in EXCEPT ![d] = Tail(@)]
  BY DEF Read, StepInv, PipesForm
<1>2. /\ Tail(in[d]) \in Seq(Request) /\ Len(Tail(in[d])) = Len(in[d]) - 1
      /\ \A i \in 1..Len(Tail(in[d])) : Tail(in[d])[i] = in[d][i + 1]
      /\ Len(in[d]) \in Nat \ {0} /\ DOMAIN in[d] = 1..Len(in[d])
      /\ DOMAIN Tail(in[d]) = 1..Len(Tail(in[d])) /\ in[d][1] = request
  BY <1>1, HeadTailProperties, LenProperties, EmptySeq
<1>3. PipesForm'
  BY <1>1, <1>2 DEF StepInv, PipesForm
<1>4. Everyone'
  <2>1. ASSUME shellPc \in {"prompt", "ask", "reply", "astray"}
        PROVE  NoneOf(in'[d], "end") /\ drvPc'[d] # "gone"
    <3>1. NoneOf(in[d], "end")
      BY <2>1 DEF StepInv, Everyone
    <3>2. NoneOf(in'[d], "end")
      BY <1>1, <3>1, NoneLeft
    <3>3. request # "end"
      BY <1>2, <3>1 DEF NoneOf
    <3> QED
      BY <3>2, <3>3
  <2> QED
    BY <1>1, <2>1 DEF StepInv, Everyone
<1>5. ASSUME Quiet(d) PROVE Quiet(d)'
  <2>1. NoneOf(in'[d], "query")
    BY <1>1, <1>5, NoneLeft DEF Quiet
  <2> QED
    BY <1>5, <2>1 DEF Quiet
<1>6. ASSUME Asking(d) PROVE Asking(d)'
  <2>1. Len(in[d]) # 1
    BY <1>2, <1>6 DEF Asking
  <2>2. in'[d] # <<>>
    BY <1>1, <2>1, TailEmpty
  <2>3. ASSUME NEW i \in DOMAIN in'[d]
        PROVE  in'[d][i] = "query" <=> i = Len(in'[d])
    <3>1. /\ i \in Nat /\ i + 1 \in DOMAIN in[d]
          /\ in'[d][i] = in[d][i + 1] /\ Len(in'[d]) = Len(in[d]) - 1
      BY <1>1, <1>2
    <3>2. in[d][i + 1] = "query" <=> i + 1 = Len(in[d])
      BY <1>6, <3>1 DEF Asking
    <3>3. i = Len(in'[d]) <=> i + 1 = Len(in[d])
      BY <1>2, <3>1
    <3> QED
      BY <3>1, <3>2, <3>3
  <2> QED
    BY <1>6, <2>2, <2>3 DEF Asking
<1>7. ~Answered(d)
  BY <1>1 DEF Answered
<1>8. LockStep'
  <2>1. ASSUME NEW e \in Index, e # d
        PROVE  (Quiet(e) => Quiet(e)') /\ (Asking(e) => Asking(e)')
               /\ (Answered(e) => Answered(e)')
    BY <1>1, <2>1 DEF Quiet, Asking, Answered
  <2> QED
    BY <1>5, <1>6, <1>7, <2>1 DEF StepInv, LockStep
<1> QED
  BY <1>3, <1>4, <1>8 DEF StepInv

(* It answers when it has done everything else, and only to the shell.     *)
LEMMA StepAnswers ==
    ASSUME StepInv, BusyInv', NEW d \in Index, Answer(d) PROVE StepInv'
<1> DEFINE answer == [stat |-> status[d], left |-> timer[d] = "armed"]
<1>1. /\ in[d] # <<>> /\ Head(in[d]) = "query" /\ in[d] \in Seq(Request)
      /\ in'[d] = Tail(in[d]) /\ \A e \in Index \ {d} : in'[e] = in[e]
      /\ in' = [in EXCEPT ![d] = Tail(@)]
      /\ out' = [out EXCEPT ![d] = Append(@, answer)]
      /\ UNCHANGED <<shellPc, index, status, timer>>
  BY DEF Answer, Read, StepInv, PipesForm, shell
<1>2. /\ Tail(in[d]) \in Seq(Request) /\ Len(Tail(in[d])) = Len(in[d]) - 1
      /\ Len(in[d]) \in Nat \ {0} /\ DOMAIN in[d] = 1..Len(in[d])
      /\ in[d][1] = "query"
  BY <1>1, HeadTailProperties, LenProperties, EmptySeq
<1>3. answer \in Reply
  <2>1. status[d] \in 0..1 /\ (timer[d] = "armed") \in BOOLEAN
    BY DEF StepInv, BusyInv, DriverTypeOK
  <2> QED
    BY <2>1 DEF Reply
<1>4. shellPc = "reply" /\ index = d /\ Asking(d)
  BY <1>1, <1>2 DEF StepInv, LockStep, Quiet, Answered, NoneOf
<1>5. in'[d] = <<>>
  <2>1. Len(in[d]) = 1
    <3>1. 1 \in DOMAIN in[d]
      BY <1>2
    <3> QED
      BY <1>2, <1>4, <3>1, Zenon DEF Asking
  <2> QED
    BY <1>1, <2>1, TailEmpty
<1>6. /\ out'[d] = <<answer>> /\ out'[d] \in Seq(Reply)
      /\ \A e \in Index \ {d} : out'[e] = out[e]
  <2>1. out[d] = <<>>
    BY <1>4 DEF Asking
  <2>2. out'[d] = Append(out[d], answer) /\ \A e \in Index \ {d} : out'[e] = out[e]
    BY <1>1 DEF StepInv, PipesForm
  <2> HIDE DEF answer
  <2>3. Append(<<>>, answer) = <<answer>>
    OBVIOUS
  <2>4. <<answer>> \in Seq(Reply)
    BY <1>3
  <2> QED
    BY <2>1, <2>2, <2>3, <2>4
<1>7. PipesForm'
  <2> HIDE DEF answer
  <2>1. out' \in [Index -> Seq(Reply)] /\ in' \in [Index -> Seq(Request)]
    BY <1>1, <1>2, <1>6 DEF StepInv, PipesForm
  <2> QED
    BY <1>1, <2>1 DEF StepInv, PipesForm
<1>8. Everyone'
  <2>1. drvPc'[d] # "gone" /\ \A e \in Index \ {d} : drvPc'[e] = drvPc[e]
    BY DEF Answer, Step, StepInv, BusyInv, DriverTypeOK
  <2> QED
    BY <1>1, <1>5, <2>1 DEF StepInv, Everyone, NoneOf
<1>9. Answered(d)'
  <2>1. Len(out'[d]) = 1 /\ Head(out'[d]).stat = status[d]
    BY <1>6
  <2>2. status[d] = 0 => timer[d] # "armed"
    BY DEF StepInv, BusyInv, ArmedIsBusy
  <2> QED
    BY <1>1, <1>5, <2>1, <2>2 DEF Answered
<1>10. \A e \in Index \ {d} : Quiet(e)'
  BY <1>1, <1>4, <1>6 DEF StepInv, LockStep, Quiet
<1> QED
  BY <1>1, <1>4, <1>7, <1>8, <1>9, <1>10 DEF StepInv, LockStep

(* The timer runs out, or the driver sees that it did.                     *)
LEMMA StepTimer ==
    ASSUME StepInv, BusyInv', NEW d \in Index, TaskOver(d) \/ Expire(d)
    PROVE  StepInv'
<1>1. /\ UNCHANGED <<shellPc, index, in, out>>
      /\ \A e \in Index : /\ drvPc[e] # "gone" => drvPc'[e] # "gone"
                          /\ status[e] = 0 => status'[e] = 0
                          /\ timer[e] # "armed" => timer'[e] # "armed"
  BY DEF TaskOver, Expire, Step, shell, StepInv, BusyInv, DriverTypeOK
<1>2. PipesForm' /\ Everyone'
  BY <1>1 DEF StepInv, PipesForm, Everyone
<1>3. LockStep'
  BY <1>1 DEF StepInv, LockStep, Quiet, Asking, Answered
<1> QED
  BY <1>2, <1>3 DEF StepInv

LEMMA StepUser ==
    ASSUME ZeroTasks \subseteq {"ignored"}, StepInv, BusyInv', UserActs
    PROVE  StepInv'
<1>1. CASE CreateDriver
  <2>1. \A d \in Index : drvPc'[d] = "gone" => drvPc[d] = "gone"
    BY <1>1 DEF CreateDriver, StepInv, BusyInv, DriverTypeOK
  <2> QED
    BY <1>1, <2>1, StepIdle DEF CreateDriver
<1>2. ASSUME NEW d \in {0} \cup Index, SendTask(d) PROVE StepInv'
  <2>1. CASE d = 0
    BY <1>2, <2>1, StepIdle DEF SendTask, driver
  <2> QED
    BY <1>2, <2>1, StepTask
<1>3. ASSUME NEW first, NEW final, Ask(first, final) PROVE StepInv'
  BY <1>3, StepIdle DEF Ask, driver
<1>4. CASE Quit
  BY <1>4, StepIdle DEF Quit, driver
<1>5. CASE AskNobody \/ LoseLine
  BY <1>5, StepIdle DEF AskNobody, LoseLine, driver
<1> QED
  BY <1>1, <1>2, <1>3, <1>4, <1>5 DEF UserActs, GetStatus, GetDrivers

LEMMA StepShell == ASSUME StepInv, BusyInv', ShellRuns PROVE StepInv'
<1>1. CASE ShellWaits
  BY <1>1, StepIdle DEF ShellWaits, driver
<1> QED
  BY <1>1, StepAsks, StepReads, StepEnds DEF ShellRuns

LEMMA StepDriver ==
    ASSUME StepInv, BusyInv', NEW d \in Index, DriverRuns(d) \/ Expire(d)
    PROVE  StepInv'
<1> USE DEF StepInv, BusyInv, DriverTypeOK, Step, shell
<1>1. CASE Select(d)
  <2>1. \A e \in Index : drvPc'[e] = "gone" => drvPc[e] = "gone"
    BY <1>1 DEF Select
  <2> QED
    BY <1>1, <2>1, StepIdle DEF Select
<1>2. CASE NewTask(d)
  <2>1. \A e \in Index \ {d} : /\ status'[e] = status[e] /\ timer'[e] = timer[e]
                               /\ drvPc'[e] = drvPc[e]
    BY <1>2 DEF NewTask
  <2>2. "task" \in Request \ {"query"} /\ drvPc'[d] # "gone"
    BY <1>2 DEF NewTask, Request, Tasks
  <2> QED
    BY <1>2, <2>1, <2>2, StepTakes DEF NewTask
<1>3. CASE Ignore(d)
  <2>1. \A e \in Index \ {d} : /\ status'[e] = status[e] /\ timer'[e] = timer[e]
                               /\ drvPc'[e] = drvPc[e]
    BY <1>3 DEF Ignore
  <2>2. "ignored" \in Request \ {"query"} /\ drvPc'[d] # "gone"
    BY <1>3 DEF Ignore, Request
  <2> QED
    BY <1>3, <2>1, <2>2, StepTakes DEF Ignore
<1>4. CASE End(d)
  <2>1. \A e \in Index \ {d} : /\ status'[e] = status[e] /\ timer'[e] = timer[e]
                               /\ drvPc'[e] = drvPc[e]
    BY <1>4 DEF End
  <2>2. "end" \in Request \ {"query"}
    BY DEF Request
  <2> QED
    BY <1>4, <2>1, <2>2, StepTakes DEF End
<1>5. CASE NewTaskUntimed(d)
  <2>1. \A e \in Index \ {d} : /\ status'[e] = status[e] /\ timer'[e] = timer[e]
                               /\ drvPc'[e] = drvPc[e]
    BY <1>5 DEF NewTaskUntimed
  <2>2. "untimed" \in Request \ {"query"} /\ drvPc'[d] # "gone"
    BY <1>5 DEF NewTaskUntimed, Request, Tasks
  <2> QED
    BY <1>5, <2>1, <2>2, StepTakes DEF NewTaskUntimed
<1> QED
  BY <1>1, <1>2, <1>3, <1>4, <1>5, StepAnswers, StepTimer DEF DriverRuns

LEMMA StepStep ==
    ASSUME ZeroTasks \subseteq {"ignored"}, StepInv, [Next]_vars PROVE StepInv'
<1>1. BusyInv'
  BY BusyStep DEF StepInv
<1>2. CASE UNCHANGED vars
  BY <1>1, <1>2, StepIdle DEF vars, shell, driver
<1> QED
  BY <1>1, <1>2, StepUser, StepShell, StepDriver DEF Next

LEMMA StepInStep == ASSUME StepInv PROVE InStep
<1> SUFFICES ASSUME NEW d \in Index
             PROVE  Cardinality(Questions(d)) + Len(out[d]) =
                        IF shellPc = "reply" /\ index = d THEN 1 ELSE 0
  BY DEF InStep
<1>1. in[d] \in Seq(Request) /\ out[d] \in Seq(Reply)
  BY DEF StepInv, PipesForm
<1>2. ASSUME Quiet(d) PROVE Cardinality(Questions(d)) = 0 /\ Len(out[d]) = 0
  <2>1. Questions(d) = {}
    BY <1>2 DEF Quiet, NoneOf, Questions
  <2> QED
    BY <1>2, <2>1, FS_EmptySet, EmptySeq DEF Quiet
<1>3. ASSUME Asking(d) PROVE Cardinality(Questions(d)) = 1 /\ Len(out[d]) = 0
  <2>1. Len(in[d]) \in DOMAIN in[d]
    BY <1>1, <1>3, LenProperties, EmptySeq DEF Asking
  <2>2. Questions(d) = {Len(in[d])}
    BY <1>3, <2>1 DEF Asking, Questions
  <2> QED
    BY <1>3, <2>2, FS_Singleton, EmptySeq DEF Asking
<1>4. ASSUME Answered(d) PROVE Cardinality(Questions(d)) = 0 /\ Len(out[d]) = 1
  <2>1. Questions(d) = {}
    BY <1>4 DEF Answered, Questions
  <2> QED
    BY <1>4, <2>1, FS_EmptySet DEF Answered
<1>5. IF shellPc = "reply" /\ index = d THEN Asking(d) \/ Answered(d) ELSE Quiet(d)
  BY DEF StepInv, LockStep
<1>6. 1 + 0 = 1 /\ 0 + 1 = 1
  OBVIOUS
<1>7. 0 + 0 = 0
  OBVIOUS
<1>8. CASE shellPc = "reply" /\ index = d
  BY <1>3, <1>4, <1>5, <1>6, <1>8, Zenon
<1>9. CASE ~(shellPc = "reply" /\ index = d)
  BY <1>2, <1>5, <1>7, <1>9, Zenon
<1> QED
  BY <1>8, <1>9, Zenon

(* The shell and its drivers stay in step, when a task with the time 0 is  *)
(* ignored: a question or an answer is under way only while the shell      *)
(* waits for this driver, and never two (main.c 93-94, 124-125, 182-187).  *)
THEOREM InStepAlways ==
    ASSUME ZeroTasks \subseteq {"ignored"} PROVE Spec => []InStep
<1>1. StepInv /\ [Next]_vars => StepInv'
  BY StepStep
<1>2. StepInv => InStep
  BY StepInStep
<1> QED
  BY StepInit, <1>1, <1>2, PTL DEF Spec

(* A driver that says it is available has no task left, neither running    *)
(* nor in its pipe: the question is behind every task that was sent        *)
(* (main.c 110-117, 173-187).                                              *)
THEOREM AvailableIsFreeAlways ==
    ASSUME ZeroTasks \subseteq {"ignored"} PROVE Spec => []AvailableIsFree
<1>1. StepInv /\ [Next]_vars => StepInv'
  BY StepStep
<1>2. StepInv => AvailableIsFree
  BY DEF StepInv, LockStep, Quiet, Asking, Answered, AvailableIsFree, Range
<1> QED
  BY StepInit, <1>1, <1>2, PTL DEF Spec
=============================================================================
