--------------------------------- MODULE Shop ---------------------------------
(***************************************************************************)
(* task11.3: customers take goods from the shelves of a store and a loader *)
(* puts packages there, each shelf under its own mutex and every choice    *)
(* random, until the customers have what they need.                        *)
(***************************************************************************)
EXTENDS Naturals

CONSTANTS
    Customers,  \* the threads customer_routine, CUSTOMER_NUM of them
    Shelves,    \* 0 to 4 in the code
    Stock,      \* what lies on a shelf at first, 500 in the code
    Package,    \* what the loader brings, 500 in the code
    Needs,      \* what a customer may want: 10000, 11000 or 12000
    MaxStored   \* bound: the loader leaves a shelf alone that holds as much

Loader == "loader"
Nobody == "nobody"
None   == "none"

ASSUME ShopAssumption ==
    /\ Stock \in Nat /\ Package \in Nat \ {0} /\ MaxStored \in Nat \ {0}
    /\ Needs \subseteq Nat \ {0} /\ None \notin Shelves
    /\ Loader \notin Customers /\ Nobody \notin Customers

Workers == Customers \cup {Loader}

VARIABLES
    storedge,   \* the goods on each shelf
    cell,       \* cell[s]: the holder of the mutex of shelf s
    is_loader_working,
    shopPc,     \* where a thread stands, see ShopTypeOK
    choice,     \* the shelf it has chosen
    seen,       \* what it has read of storedge[choice], under the mutex
    need,       \* what a customer still needs
    shopMain,   \* main: "start", "join", "last" (joins the loader), "closed"
    (* history *)
    want,       \* what a customer came for
    got,        \* what it has taken
    taken,      \* what was taken off a shelf
    brought     \* how many packages were put on it

shopHistory == <<want, got, taken, brought>>
shopVars == <<storedge, cell, is_loader_working, shopPc, choice, seen, need,
              shopMain, shopHistory>>

ShopInit ==
    /\ storedge = [s \in Shelves |-> Stock]
    /\ cell = [s \in Shelves |-> Nobody]
    /\ is_loader_working = TRUE
    /\ shopPc = [w \in Workers |-> "none"]
    /\ choice = [w \in Workers |-> None]
    /\ seen = [w \in Workers |-> 0]
    /\ need = [c \in Customers |-> 0] /\ want = need
    /\ shopMain = "start"
    /\ got = [c \in Customers |-> 0]
    /\ taken = [s \in Shelves |-> 0] /\ brought = [s \in Shelves |-> 0]

Moves(w, from, to) ==
    shopPc[w] = from /\ shopPc' = [shopPc EXCEPT ![w] = to]

-----------------------------------------------------------------------------
(* Both kinds of thread: rand() % 5, lock, read, and after the change      *)
(* unlock and sleep.                                                       *)

Chooses(w, s) ==
    /\ Moves(w, "while", "lock")
    /\ choice' = [choice EXCEPT ![w] = s]
    /\ UNCHANGED <<storedge, cell, is_loader_working, seen, need, shopMain,
                   shopHistory>>

(* Fault: the loader locks a mutex of its own.                             *)
Locks_OwnCell(w) ==
    /\ Moves(w, "lock", "locked")
    /\ w # Loader => cell[choice[w]] = Nobody
    /\ cell' = [cell EXCEPT ![choice[w]] = w]
    /\ seen' = [seen EXCEPT ![w] = storedge[choice[w]]]
    /\ UNCHANGED <<storedge, is_loader_working, choice, need, shopMain,
                   shopHistory>>

Locks(w) ==
    /\ Moves(w, "lock", "locked")
    /\ cell[choice[w]] = Nobody
    /\ cell' = [cell EXCEPT ![choice[w]] = w]
    /\ seen' = [seen EXCEPT ![w] = storedge[choice[w]]]
    /\ UNCHANGED <<storedge, is_loader_working, choice, need, shopMain,
                   shopHistory>>

Writes(w, goods) ==
    /\ Moves(w, "locked", "while")
    /\ storedge' = [storedge EXCEPT ![choice[w]] = goods]
    /\ cell' = [cell EXCEPT ![choice[w]] = Nobody]
    /\ choice' = [choice EXCEPT ![w] = None]
    /\ seen' = [seen EXCEPT ![w] = 0]

Leaves(w) ==
    /\ Moves(w, "while", "gone")
    /\ UNCHANGED <<storedge, cell, is_loader_working, choice, seen, need,
                   shopMain, shopHistory>>

-----------------------------------------------------------------------------
(* customer_routine and get_items.                                         *)

MIN(a, b) == IF a < b THEN a ELSE b

Comes(c, s) == need[c] # 0 /\ Chooses(c, s)

Takes(c) ==
    LET min_val == MIN(seen[c], need[c])
    IN  /\ Writes(c, seen[c] - min_val)
        /\ need' = [need EXCEPT ![c] = @ - min_val]
        /\ got' = [got EXCEPT ![c] = @ + min_val]
        /\ taken' = [taken EXCEPT ![choice[c]] = @ + min_val]
        /\ UNCHANGED <<is_loader_working, shopMain, want, brought>>

GoesHome(c) == need[c] = 0 /\ Leaves(c)

(* loader_routine and set_item.                                            *)
Brings(s) ==
    /\ is_loader_working /\ storedge[s] < MaxStored
    /\ Chooses(Loader, s)

Puts ==
    /\ Writes(Loader, seen[Loader] + Package)
    /\ brought' = [brought EXCEPT ![choice[Loader]] = @ + 1]
    /\ UNCHANGED <<is_loader_working, need, shopMain, want, got, taken>>

LoaderStops == ~is_loader_working /\ Leaves(Loader)

(* Fault: the loader is stopped before the customers are joined.           *)
StopsLoader_First ==
    /\ shopMain = "join"
    /\ is_loader_working' = FALSE
    /\ shopMain' = "last"
    /\ UNCHANGED <<storedge, cell, shopPc, choice, seen, need, shopHistory>>

(* main.                                                                   *)
StopsLoader ==
    /\ shopMain = "join" /\ \A c \in Customers : shopPc[c] = "gone"
    /\ is_loader_working' = FALSE
    /\ shopMain' = "last"
    /\ UNCHANGED <<storedge, cell, shopPc, choice, seen, need, shopHistory>>

ShopOpens ==
    /\ shopMain = "start" /\ shopMain' = "join"
    /\ shopPc' = [w \in Workers |-> "while"]
    /\ need' \in [Customers -> Needs] /\ want' = need'
    /\ UNCHANGED <<storedge, cell, is_loader_working, choice, seen, got, taken,
                   brought>>

Closes ==
    /\ shopMain = "last" /\ shopPc[Loader] = "gone"
    /\ shopMain' = "closed"
    /\ UNCHANGED <<storedge, cell, is_loader_working, shopPc, choice, seen,
                   need, shopHistory>>

-----------------------------------------------------------------------------
Acts(w) == IF w = Loader THEN Puts ELSE Takes(w)

ShopNext ==
    \/ \E w \in Workers : Locks(w) \/ Acts(w)
    \/ \E c \in Customers : GoesHome(c) \/ \E s \in Shelves : Comes(c, s)
    \/ (\E s \in Shelves : Brings(s)) \/ LoaderStops
    \/ ShopOpens \/ StopsLoader \/ Closes

ShopSpec == ShopInit /\ [][ShopNext]_shopVars

(***************************************************************************)
(* Threads are scheduled; who sleeps between its turns at a mutex does not *)
(* keep another from it for ever; and rand() leaves out no shelf for ever. *)
(***************************************************************************)
ShopFairness ==
    /\ \A w \in Workers : WF_shopVars(Acts(w)) /\ SF_shopVars(Locks(w))
    /\ \A c \in Customers :
          /\ WF_shopVars(GoesHome(c))
          /\ \A s \in Shelves : SF_shopVars(Comes(c, s))
    /\ WF_shopVars(\E s \in Shelves : Brings(s)) /\ WF_shopVars(LoaderStops)
    /\ WF_shopVars(StopsLoader \/ Closes)

-----------------------------------------------------------------------------
ShopTypeOK ==
    /\ storedge \in [Shelves -> Nat]
    /\ cell \in [Shelves -> Workers \cup {Nobody}]
    /\ is_loader_working \in BOOLEAN
    /\ shopPc \in
          [Workers -> {"none", "while", "lock", "locked", "gone"}]
    /\ choice \in [Workers -> Shelves \cup {None}] /\ seen \in [Workers -> Nat]
    /\ need \in [Customers -> Nat] /\ want \in [Customers -> Nat]
    /\ got \in [Customers -> Nat]
    /\ taken \in [Shelves -> Nat] /\ brought \in [Shelves -> Nat]
    /\ shopMain \in {"start", "join", "last", "closed"}

(* Nothing is lost or sold twice: a shelf holds what lay there and was     *)
(* brought, without what the customers took, and a customer lacks what it  *)
(* has not taken, although each reads a shelf and writes it later          *)
(* (main.c 30-46).                                                         *)
NothingLost ==
    /\ \A s \in Shelves :
          storedge[s] + taken[s] = Stock + Package * brought[s]
    /\ \A c \in Customers : need[c] + got[c] = want[c]

(* The loader is told to stop only when every customer has got all it came *)
(* for: nobody is left before empty shelves (main.c 51, 84, 125-130).        *)
ServedBeforeStop ==
    ~is_loader_working => \A c \in Customers : got[c] = want[c]

(* The store closes: each customer gets all it needs, whoever empties the  *)
(* shelves before it, and the loader goes home after them (main.c 48-130). *)
ShopCloses ==
    shopMain = "join" ~>
        shopMain = "closed" /\ \A c \in Customers : got[c] = want[c]
=============================================================================
