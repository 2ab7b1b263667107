------------------------------ MODULE Terminals -------------------------------
(***************************************************************************)
(* The programs that a user works with at a terminal: the shell with       *)
(* drivers and the one with pipelines, the echo server with its clients,   *)
(* and the file panels.  One of them runs.                                 *)
(***************************************************************************)
EXTENDS Drivers, Pipeline, Echo, Panels

VARIABLE program    \* the one that runs

driversVars  == vars
terminalVars == <<program, driversVars, pipeVars, echoVars, panelVars>>

(* What a program that does not run could choose is fixed.                 *)
TerminalsInit ==
    /\ program \in {"drivers", "pipeline", "echo", "panels"}
    /\ Init /\ PipeInit /\ EchoInit /\ PanelsInit
    /\ program # "pipeline" => tty

Runs(one) ==
    /\ program = one /\ UNCHANGED program
    /\ one # "drivers"  => UNCHANGED driversVars
    /\ one # "pipeline" => UNCHANGED pipeVars
    /\ one # "echo"     => UNCHANGED echoVars
    /\ one # "panels"   => UNCHANGED panelVars

TerminalsNext ==
    \/ Runs("drivers")  /\ Next
    \/ Runs("pipeline") /\ PipeNext
    \/ Runs("echo")     /\ EchoNext
    \/ Runs("panels")   /\ PanelsNext

(* As long as a program has not been used nothing in it has to happen, so  *)
(* that the fairness of those that do not run asks for nothing.            *)
TerminalsSpec ==
    /\ TerminalsInit /\ [][TerminalsNext]_terminalVars
    /\ Fairness /\ PipeFairness
=============================================================================
