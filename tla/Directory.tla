------------------------------ MODULE Directory ------------------------------
(***************************************************************************)
(* What the telephone directories of task4 and task6 promise: they hold    *)
(* the subscribers in the order in which they were added, up to a limit,   *)
(* and what they show is what they hold.                                   *)
(***************************************************************************)
EXTENDS Subscribers

Seqs == INSTANCE SequencesExt

VARIABLES
    entries,    \* the subscribers
    shown       \* what the last command has printed

vars == <<entries, shown>>

Init == entries = <<>> /\ shown = <<>>

Add(abonent) ==
    /\ Len(entries) < Capacity
    /\ entries' = Append(entries, abonent)
    /\ shown' = <<>>

(* The first subscriber of that name is removed, if there is one.          *)
Remove(name) ==
    /\ \/ \E i \in DOMAIN entries :
             /\ entries[i].name = name
             /\ \A j \in 1..(i-1) : entries[j].name # name
             /\ entries' = Seqs!RemoveAt(entries, i)
       \/ /\ \A i \in DOMAIN entries : entries[i].name # name
          /\ UNCHANGED entries
    /\ shown' = <<>>

(* Some of that name are shown, the first n, and none only if there is     *)
(* none.  at[k] is the k-th: only those shown before it are in front of it.*)
Search(name) ==
    LET matches == {i \in DOMAIN entries : entries[i].name = name} IN
    /\ \E n \in 0..Len(entries) : \E at \in [1..n -> matches] :
          /\ n = 0 => matches = {}
          /\ \A k \in 1..n : \A i \in matches :
                i < at[k] <=> \E j \in 1..(k-1) : i = at[j]
          /\ shown' = [k \in 1..n |-> entries[at[k]]]
    /\ UNCHANGED entries

ShowAll == shown' = entries /\ UNCHANGED entries

(* The user leaves the program; nothing is kept for the next time.         *)
Leave == entries' = <<>> /\ shown' = <<>>

Next ==
    \/ \E abonent \in Abonent : Add(abonent)
    \/ \E name \in Names : Remove(name) \/ Search(name)
    \/ ShowAll \/ Leave

Spec == Init /\ [][Next]_vars
=============================================================================
