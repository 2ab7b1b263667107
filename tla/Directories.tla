----------------------------- MODULE Directories -----------------------------
(***************************************************************************)
(* The two telephone directories, the array of task4 and the list of       *)
(* task6.  They offer the same commands; one of the programs runs.         *)
(***************************************************************************)
EXTENDS LinkedDirectory, ArrayDirectory

VARIABLE program    \* the one that runs

vars == <<program, listVars, arrayVars>>

Init == program \in {"array", "list"} /\ ListInit /\ ArrayInit

Next ==
    /\ UNCHANGED program
    /\ \/ program = "list" /\ ListNext /\ UNCHANGED arrayVars
       \/ program = "array" /\ ArrayNext /\ UNCHANGED listVars

Spec == Init /\ [][Next]_vars

(* Both are the directory that their user sees.                            *)
Promise == INSTANCE Directory WITH
    entries <- IF program = "list" THEN Contents ELSE InUse,
    shown   <- IF program = "list" THEN printed ELSE output

(* Whatever is added and removed in whatever order, the program holds the  *)
(* subscribers in order, removes the first of a name and shows what it     *)
(* holds, with pointers (task6) as with an array (task4).                  *)
ImplementsDirectory == Promise!Spec
=============================================================================
