--------------------------- MODULE LinkedDirectory ---------------------------
(***************************************************************************)
(* The directory of task6: a doubly linked list of cells from malloc.  A   *)
(* cell that was freed keeps what was in it and may be handed out again.   *)
(***************************************************************************)
EXTENDS FiniteSets, Subscribers

CONSTANTS
    Cells,      \* the addresses malloc may return
    NULL

ASSUME CellsAssumption == IsFiniteSet(Cells) /\ NULL \notin Cells

VARIABLES
    head, tail, \* of the list
    capacity,   \* how many cells it has, in spite of its name
    allocated,  \* the cells that are not free
    next, prev, data,   \* the fields of each cell
    printed     \* what the last command has printed

listVars == <<head, tail, capacity, allocated, next, prev, data, printed>>

ListInit ==
    /\ head = NULL /\ tail = NULL /\ capacity = 0 /\ allocated = {}
    /\ next = [cell \in Cells |-> NULL] /\ prev = [cell \in Cells |-> NULL]
    /\ data \in [Cells -> {CHOOSE abonent \in Abonent : TRUE}]
    /\ printed = <<>>

(* The first n cells from the head.                                        *)
Walk(n) ==
    LET cell[i \in 1..n] == IF i = 1 THEN head ELSE next[cell[i-1]]
    IN  [i \in 1..n |-> cell[i]]

(* cell_search: the loop ends at the cell that has the name, or at NULL.   *)
CellSearch(name) ==
    LET hits == {i \in 1..capacity : data[Walk(capacity)[i]].name = name} IN
    IF hits = {} THEN NULL
    ELSE Walk(capacity)[CHOOSE i \in hits : \A j \in hits : i <= j]

(* Fault: the new cell is put in front of the list.                        *)
CellAdd_InFront(abonent, cell) ==
    /\ capacity < Capacity
    /\ cell \in Cells \ allocated
    /\ allocated' = allocated \cup {cell}
    /\ capacity' = capacity + 1
    /\ data' = [data EXCEPT ![cell] = abonent]
    /\ next' = [next EXCEPT ![cell] = head]
    /\ prev' = [c \in Cells |-> IF c = cell THEN NULL
                                ELSE IF c = head THEN cell ELSE prev[c]]
    /\ head' = cell
    /\ tail' = IF head = NULL THEN cell ELSE tail
    /\ printed' = <<>>

(* cell_add, and the test for a full directory in main.                    *)
CellAdd(abonent, cell) ==
    /\ capacity < Capacity
    /\ cell \in Cells \ allocated
    /\ allocated' = allocated \cup {cell}
    /\ capacity' = capacity + 1
    /\ data' = [data EXCEPT ![cell] = abonent]
    /\ tail' = cell
    /\ IF head = NULL
       THEN /\ head' = cell
            /\ next' = [next EXCEPT ![cell] = NULL]
            /\ prev' = [prev EXCEPT ![cell] = NULL]
       ELSE /\ next' = [next EXCEPT ![cell] = NULL, ![tail] = cell]
            /\ prev' = [prev EXCEPT ![cell] = tail]
            /\ UNCHANGED head
    /\ printed' = <<>>

(* cell_remove: the three places a cell may have.  Removing the only cell  *)
(* leaves tail pointing to it.                                             *)
Unlink(cell) ==
    \/ /\ cell = head
       /\ head' = next[cell]
       /\ prev' = IF next[cell] = NULL THEN prev
                  ELSE [prev EXCEPT ![next[cell]] = NULL]
       /\ UNCHANGED <<next, tail>>
    \/ /\ cell # head /\ cell = tail
       /\ tail' = prev[cell]
       /\ next' = IF prev[cell] = NULL THEN next
                  ELSE [next EXCEPT ![prev[cell]] = NULL]
       /\ UNCHANGED <<prev, head>>
    \/ /\ cell # head /\ cell # tail
       /\ prev' = [prev EXCEPT ![next[cell]] = prev[cell]]
       /\ next' = [next EXCEPT ![prev[cell]] = next[cell]]
       /\ UNCHANGED <<head, tail>>

(* Fault: the case of the tail is forgotten.                               *)
CellRemove_NoTail(name) ==
    LET cell == CellSearch(name) IN
    /\ capacity > 0
    /\ IF cell = NULL
       THEN UNCHANGED <<head, tail, capacity, allocated, next, prev>>
       ELSE /\ head' = IF cell = head THEN next[cell] ELSE head
            /\ next' = [c \in Cells |-> IF c = prev[cell] THEN next[cell]
                                        ELSE next[c]]
            /\ prev' = [c \in Cells |-> IF c = next[cell] THEN prev[cell]
                                        ELSE prev[c]]
            /\ capacity' = capacity - 1
            /\ allocated' = allocated \ {cell}
            /\ UNCHANGED tail
    /\ printed' = <<>>
    /\ UNCHANGED data

CellRemove(name) ==
    LET cell == CellSearch(name) IN
    /\ capacity > 0
    /\ IF cell = NULL
       THEN UNCHANGED <<head, tail, capacity, allocated, next, prev>>
       ELSE /\ Unlink(cell)
            /\ capacity' = capacity - 1
            /\ allocated' = allocated \ {cell}
    /\ printed' = <<>>
    /\ UNCHANGED data

ListSearch(name) ==
    LET cell == CellSearch(name) IN
    /\ capacity > 0
    /\ printed' = IF cell = NULL THEN <<>> ELSE <<data[cell]>>
    /\ UNCHANGED <<head, tail, capacity, allocated, next, prev, data>>

Contents == [i \in 1..capacity |-> data[Walk(capacity)[i]]]

(* The loop of main that prints all: to the cell that has no next.         *)
Chain ==
    IF head = NULL THEN <<>>
    ELSE Walk(CHOOSE n \in 1..Cardinality(Cells) :
                  \A i \in 1..n : next[Walk(n)[i]] = NULL <=> i = n)

ListShow ==
    /\ printed' = [i \in DOMAIN Chain |-> data[Chain[i]]]
    /\ UNCHANGED <<head, tail, capacity, allocated, next, prev, data>>

(* dir_free at the end of the program; it may be started again.            *)
DirFree ==
    /\ allocated' = allocated \ {Walk(capacity)[i] : i \in 1..capacity}
    /\ capacity' = 0 /\ head' = NULL /\ tail' = NULL
    /\ printed' = <<>>
    /\ UNCHANGED <<next, prev, data>>

ListNext ==
    \/ \E abonent \in Abonent, cell \in Cells : CellAdd(abonent, cell)
    \/ \E name \in Names : CellRemove(name) \/ ListSearch(name)
    \/ ListShow \/ DirFree

(* The cells from head to tail are linked both ways, all allocated, none   *)
(* twice, and there are no others: nothing is lost and no pointer that is  *)
(* followed leads to a freed cell, whatever was removed before and however *)
(* malloc hands addresses out again.  (tail may dangle while the list is   *)
(* empty.)                                                                 *)
WellLinked ==
    LET w == Walk(capacity) IN
    /\ capacity = 0 => head = NULL
    /\ \A i, j \in 1..capacity : w[i] = w[j] => i = j
    /\ allocated = {w[i] : i \in 1..capacity}
    /\ capacity > 0 =>
        /\ tail = w[capacity] /\ next[tail] = NULL
        /\ prev[head] = NULL
        /\ \A i \in 2..capacity : prev[w[i]] = w[i-1]
=============================================================================
