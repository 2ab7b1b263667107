--------------------------- MODULE ArrayDirectory ---------------------------
(***************************************************************************)
(* The directory of task4: an array of subscribers and their number.  A    *)
(* search runs over the whole array, so the part that is not in use must   *)
(* hold no name that a user can type.                                      *)
(***************************************************************************)
EXTENDS Integers, Subscribers

CONSTANT Empty  \* what clear_data makes of a field

ASSUME EmptyAssumption == Empty \notin Names

VARIABLES
    directory,  \* the array
    used,       \* its field capacity: how many entries are in use
    output      \* what the last command has printed

arrayVars == <<directory, used, output>>

Indices == 0..(Capacity - 1)
Cleared == [name |-> Empty, rest |-> Empty]

ArrayInit ==
    /\ directory = [i \in Indices |-> Cleared]
    /\ used = 0 /\ output = <<>>

(* find_abonent_index: the first from index on that has the name, or -1.   *)
FindIndex(name, index) ==
    LET hits == {i \in Indices : i >= index /\ directory[i].name = name} IN
    IF hits = {} THEN -1 ELSE CHOOSE i \in hits : \A j \in hits : i <= j

ArrayAdd(abonent) ==
    /\ used < Capacity
    /\ directory' = [directory EXCEPT ![used] = abonent]
    /\ used' = used + 1
    /\ output' = <<>>

(* Those behind the removed one move up, the last is cleared.              *)
ArrayRemove(name) ==
    LET index == FindIndex(name, 0) IN
    /\ used > 0
    /\ IF index < 0
       THEN UNCHANGED <<directory, used>>
       ELSE /\ used' = used - 1
            /\ directory' = [i \in Indices |->
                                IF i >= index /\ i < used - 1
                                THEN directory[i + 1]
                                ELSE IF i = used - 1 THEN Cleared
                                ELSE directory[i]]
    /\ output' = <<>>

(* The loop of the search: from each hit on to the next.                   *)
Hits(name) ==
    LET from[i \in 0..Capacity] ==
            LET j == FindIndex(name, i) IN
            IF j < 0 THEN <<>> ELSE <<directory[j]>> \o from[j + 1]
    IN  from[0]

ArraySearch(name) ==
    /\ output' = Hits(name)
    /\ UNCHANGED <<directory, used>>

InUse == [i \in 1..used |-> directory[i - 1]]

ArrayShow ==
    /\ output' = InUse
    /\ UNCHANGED <<directory, used>>

(* The program ends and may be started again.                              *)
ArrayEnd ==
    /\ directory' = [i \in Indices |-> Cleared]
    /\ used' = 0 /\ output' = <<>>

ArrayNext ==
    \/ \E abonent \in Abonent : ArrayAdd(abonent)
    \/ \E name \in Names : ArrayRemove(name) \/ ArraySearch(name)
    \/ ArrayShow \/ ArrayEnd

(* What is not in use is cleared, so that a search over the whole array    *)
(* finds nobody who was removed (abonent_directory.c 39-50, 115-122).      *)
ClearedBehind == \A i \in Indices : i >= used => directory[i] = Cleared
=============================================================================
