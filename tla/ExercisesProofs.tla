---------------------------- MODULE ExercisesProofs ----------------------------
(***************************************************************************)
(* NothingLost of the store, for any customers, shelves and goods, and     *)
(* EachReadsOther of the exchanges, for any number of kills.               *)
(***************************************************************************)
EXTENDS Shop, Exchanges, TLAPS

-----------------------------------------------------------------------------
(***************************************************************************)
(* The store.  A thread reads a shelf and writes it in two steps; what it  *)
(* has read is still true when it writes, because it holds the mutex of    *)
(* that shelf.                                                             *)
(***************************************************************************)

ShopPc == {"none", "while", "lock", "locked", "gone"}

(* The part of ShopTypeOK that the books are kept in.                      *)
StoreForm ==
    /\ storedge \in [Shelves -> Nat]
    /\ cell \in [Shelves -> Workers \cup {Nobody}]
    /\ shopPc \in [Workers -> ShopPc]
    /\ choice \in [Workers -> Shelves \cup {None}] /\ seen \in [Workers -> Nat]
    /\ taken \in [Shelves -> Nat] /\ brought \in [Shelves -> Nat]

CustomerForm ==
    /\ need \in [Customers -> Nat] /\ want \in [Customers -> Nat]
    /\ got \in [Customers -> Nat]

(* The mutex: who is between its lock and its unlock holds the mutex of    *)
(* the shelf it has chosen, and the shelf is as it has read it.            *)
ShelfHeld ==
    \A w \in Workers :
        /\ shopPc[w] \in {"lock", "locked"} => choice[w] \in Shelves
        /\ shopPc[w] = "locked" =>
              cell[choice[w]] = w /\ seen[w] = storedge[choice[w]]

(* Before main has created the threads.                                    *)
NobodyServed ==
    shopMain = "start" =>
        /\ \A w \in Workers : shopPc[w] = "none"
        /\ \A c \in Customers : got[c] = 0

ShopInv ==
    StoreForm /\ CustomerForm /\ ShelfHeld /\ NobodyServed /\ NothingLost

storeVars == <<storedge, cell, shopPc, choice, seen, taken, brought>>

LEMMA ShopStart == ShopInit => ShopInv
<1> SUFFICES ASSUME ShopInit PROVE ShopInv
  OBVIOUS
<1>1. StoreForm /\ CustomerForm
  BY ShopAssumption DEF ShopInit, StoreForm, CustomerForm, ShopPc
<1>2. ShelfHeld /\ NobodyServed
  BY DEF ShopInit, ShelfHeld, NobodyServed
<1>3. NothingLost
  <2>1. \A s \in Shelves :
            storedge[s] = Stock /\ taken[s] = 0 /\ brought[s] = 0
    BY DEF ShopInit
  <2>2. \A c \in Customers : need[c] = 0 /\ got[c] = 0 /\ want[c] = 0
    BY DEF ShopInit
  <2>3. Package * 0 = 0 /\ Stock + 0 = Stock
    BY ShopAssumption
  <2> QED
    BY <2>1, <2>2, <2>3 DEF NothingLost
<1> QED
  BY <1>1, <1>2, <1>3 DEF ShopInv

-----------------------------------------------------------------------------
(* Steps of a thread that leave the goods alone.                           *)

LEMMA ShopChoice ==
    ASSUME ShopInv, NEW w \in Workers, NEW s \in Shelves, Chooses(w, s)
    PROVE  ShopInv'
<1>1. StoreForm' /\ CustomerForm' /\ NobodyServed'
  BY DEF ShopInv, Chooses, Moves, StoreForm, CustomerForm, NobodyServed,
         ShopPc, shopHistory
<1>2. ShelfHeld'
  <2> SUFFICES ASSUME NEW v \in Workers
               PROVE  /\ shopPc'[v] \in {"lock", "locked"} => choice'[v] \in Shelves
                      /\ shopPc'[v] = "locked" =>
                            /\ cell'[choice'[v]] = v
                            /\ seen'[v] = storedge'[choice'[v]]
    BY DEF ShelfHeld
  <2>1. CASE v = w
    BY <2>1 DEF ShopInv, Chooses, Moves, StoreForm
  <2>2. CASE v # w
    BY <2>2 DEF ShopInv, Chooses, Moves, StoreForm, ShelfHeld
  <2> QED
    BY <2>1, <2>2
<1>3. NothingLost'
  BY DEF ShopInv, Chooses, NothingLost, shopHistory
<1> QED
  BY <1>1, <1>2, <1>3 DEF ShopInv

LEMMA ShopLock ==
    ASSUME ShopInv, NEW w \in Workers, Locks(w) PROVE ShopInv'
<1>1. choice[w] \in Shelves /\ cell[choice[w]] = Nobody
  BY DEF ShopInv, ShelfHeld, Locks, Moves
<1>2. StoreForm' /\ CustomerForm' /\ NobodyServed'
  BY <1>1 DEF ShopInv, Locks, Moves, StoreForm, CustomerForm, NobodyServed,
              ShopPc, shopHistory
<1>3. ShelfHeld'
  <2> SUFFICES ASSUME NEW v \in Workers
               PROVE  /\ shopPc'[v] \in {"lock", "locked"} => choice'[v] \in Shelves
                      /\ shopPc'[v] = "locked" =>
                            /\ cell'[choice'[v]] = v
                            /\ seen'[v] = storedge'[choice'[v]]
    BY DEF ShelfHeld
  <2>1. CASE v = w
    BY <1>1, <2>1 DEF ShopInv, Locks, Moves, StoreForm
  <2>2. CASE v # w
    <3>1. shopPc'[v] = shopPc[v] /\ choice' = choice /\ seen'[v] = seen[v]
          /\ storedge' = storedge
      BY <2>2 DEF ShopInv, Locks, Moves, StoreForm
    <3>2. shopPc[v] = "locked" => choice[v] # choice[w]
      BY <1>1, ShopAssumption DEF ShopInv, ShelfHeld, Workers, Loader, Nobody
    <3> QED
      BY <1>1, <2>2, <3>1, <3>2 DEF ShopInv, ShelfHeld, Locks, StoreForm
  <2> QED
    BY <2>1, <2>2
<1>4. NothingLost'
  BY DEF ShopInv, Locks, NothingLost, shopHistory
<1> QED
  BY <1>2, <1>3, <1>4 DEF ShopInv

LEMMA ShopGone ==
    ASSUME ShopInv, NEW w \in Workers, Leaves(w) PROVE ShopInv'
<1>1. StoreForm' /\ CustomerForm' /\ NobodyServed'
  BY DEF ShopInv, Leaves, Moves, StoreForm, CustomerForm, NobodyServed,
         ShopPc, shopHistory
<1>2. ShelfHeld'
  BY DEF ShopInv, Leaves, Moves, StoreForm, ShelfHeld
<1>3. NothingLost'
  BY DEF ShopInv, Leaves, NothingLost, shopHistory
<1> QED
  BY <1>1, <1>2, <1>3 DEF ShopInv

-----------------------------------------------------------------------------
(* Steps that change a shelf.                                              *)

LEMMA ShelfWritten ==
    ASSUME ShopInv, NEW w \in Workers, NEW goods \in Nat, Writes(w, goods)
    PROVE  /\ shopPc[w] = "locked" /\ choice[w] \in Shelves
           /\ seen[w] = storedge[choice[w]]
           /\ storedge' = [storedge EXCEPT ![choice[w]] = goods]
           /\ storedge' \in [Shelves -> Nat]
           /\ cell' \in [Shelves -> Workers \cup {Nobody}]
           /\ shopPc' \in [Workers -> ShopPc]
           /\ choice' \in [Workers -> Shelves \cup {None}]
           /\ seen' \in [Workers -> Nat]
           /\ ShelfHeld'
<1>1. shopPc[w] = "locked"
  BY DEF Writes, Moves
<1>2. choice[w] \in Shelves /\ cell[choice[w]] = w /\ seen[w] = storedge[choice[w]]
  BY <1>1 DEF ShopInv, ShelfHeld
<1>3. storedge' = [storedge EXCEPT ![choice[w]] = goods]
  BY DEF Writes
<1>4. storedge' \in [Shelves -> Nat] /\ cell' \in [Shelves -> Workers \cup {Nobody}]
  BY DEF ShopInv, StoreForm, Writes
<1>5. /\ shopPc' \in [Workers -> ShopPc]
      /\ choice' \in [Workers -> Shelves \cup {None}] /\ seen' \in [Workers -> Nat]
  BY DEF ShopInv, StoreForm, Writes, Moves, ShopPc
<1>6. ASSUME NEW v \in Workers
      PROVE  /\ shopPc'[v] \in {"lock", "locked"} => choice'[v] \in Shelves
             /\ shopPc'[v] = "locked" =>
                   cell'[choice'[v]] = v /\ seen'[v] = storedge'[choice'[v]]
  <2>1. CASE v = w
    BY <2>1 DEF ShopInv, StoreForm, Writes, Moves
  <2>2. CASE v # w
    <3>1. shopPc'[v] = shopPc[v] /\ choice'[v] = choice[v] /\ seen'[v] = seen[v]
      BY <2>2 DEF ShopInv, StoreForm, Writes, Moves
    <3>2. shopPc[v] = "locked" => choice[v] # choice[w]
      BY <1>2, <2>2 DEF ShopInv, ShelfHeld
    <3> QED
      BY <1>2, <3>1, <3>2 DEF ShopInv, ShelfHeld, StoreForm, Writes
  <2> QED
    BY <2>1, <2>2
<1> QED
  BY <1>1, <1>2, <1>3, <1>4, <1>5, <1>6 DEF ShelfHeld

LEMMA ShopTake ==
    ASSUME ShopInv, NEW c \in Customers, Takes(c) PROVE ShopInv'
<1> DEFINE m == MIN(seen[c], need[c])
           s == choice[c]
<1>1. c \in Workers /\ seen[c] \in Nat /\ need[c] \in Nat
  BY DEF ShopInv, StoreForm, CustomerForm, Workers
<1>2. m \in Nat /\ seen[c] - m \in Nat /\ need[c] - m \in Nat
  BY <1>1 DEF MIN
<1>3. /\ Writes(c, seen[c] - m)
      /\ need' = [need EXCEPT ![c] = need[c] - m]
      /\ got' = [got EXCEPT ![c] = got[c] + m]
      /\ taken' = [taken EXCEPT ![s] = taken[s] + m]
      /\ UNCHANGED <<want, brought, shopMain>>
  BY DEF Takes
<1> HIDE DEF m, s
<1>4. /\ choice[c] \in Shelves /\ seen[c] = storedge[choice[c]]
      /\ storedge' = [storedge EXCEPT ![choice[c]] = seen[c] - m]
      /\ ShelfHeld'
  BY <1>1, <1>2, <1>3, ShelfWritten
<1>5. StoreForm'
  <2>1. taken' \in [Shelves -> Nat] /\ brought' \in [Shelves -> Nat]
    BY <1>2, <1>3, <1>4 DEF ShopInv, StoreForm, s
  <2> QED
    BY <1>1, <1>2, <1>3, <2>1, ShelfWritten DEF StoreForm
<1>6. CustomerForm'
  BY <1>2, <1>3 DEF ShopInv, CustomerForm
<1>7. NobodyServed'
  BY <1>1, <1>3 DEF ShopInv, NobodyServed, Writes, Moves
<1>8. \A t \in Shelves : storedge'[t] + taken'[t] = Stock + Package * brought'[t]
  <2> TAKE t \in Shelves
  <2>1. storedge[t] + taken[t] = Stock + Package * brought[t]
    BY DEF ShopInv, NothingLost
  <2>2. storedge[t] \in Nat /\ taken[t] \in Nat /\ brought'[t] = brought[t]
    BY <1>3 DEF ShopInv, StoreForm
  <2>3. CASE t = s
    <3>1. storedge'[t] = storedge[t] - m /\ taken'[t] = taken[t] + m
      BY <1>3, <1>4, <2>3 DEF ShopInv, StoreForm, s
    <3>2. storedge'[t] + taken'[t] = storedge[t] + taken[t]
      BY <1>2, <2>2, <3>1
    <3> QED
      BY <2>1, <2>2, <3>2
  <2>4. CASE t # s
    <3>1. storedge'[t] = storedge[t] /\ taken'[t] = taken[t]
      BY <1>3, <1>4, <2>4 DEF ShopInv, StoreForm, s
    <3> QED
      BY <2>1, <2>2, <3>1
  <2> QED
    BY <2>3, <2>4
<1>9. \A d \in Customers : need'[d] + got'[d] = want'[d]
  <2> TAKE d \in Customers
  <2>1. need[d] + got[d] = want[d] /\ need[d] \in Nat /\ got[d] \in Nat
    BY DEF ShopInv, NothingLost, CustomerForm
  <2>2. CASE d = c
    BY <1>2, <1>3, <2>1, <2>2 DEF ShopInv, CustomerForm
  <2>3. CASE d # c
    BY <1>3, <2>1, <2>3 DEF ShopInv, CustomerForm
  <2> QED
    BY <2>2, <2>3
<1> QED
  BY <1>4, <1>5, <1>6, <1>7, <1>8, <1>9 DEF ShopInv, NothingLost

LEMMA ShopPut == ASSUME ShopInv, Puts PROVE ShopInv'
<1> DEFINE s == choice[Loader]
<1>1. Loader \in Workers /\ seen[Loader] \in Nat /\ Package \in Nat
  BY ShopAssumption DEF ShopInv, StoreForm, Workers
<1>2. seen[Loader] + Package \in Nat
  BY <1>1
<1>3. /\ Writes(Loader, seen[Loader] + Package)
      /\ brought' = [brought EXCEPT ![s] = brought[s] + 1]
      /\ UNCHANGED <<need, want, got, taken, shopMain>>
  BY DEF Puts
<1> HIDE DEF s
<1>4. /\ choice[Loader] \in Shelves /\ seen[Loader] = storedge[choice[Loader]]
      /\ storedge' = [storedge EXCEPT ![choice[Loader]] = seen[Loader] + Package]
      /\ ShelfHeld'
  BY <1>1, <1>2, <1>3, ShelfWritten
<1>5. StoreForm'
  <2>1. taken' \in [Shelves -> Nat] /\ brought' \in [Shelves -> Nat]
    BY <1>3, <1>4 DEF ShopInv, StoreForm, s
  <2> QED
    BY <1>1, <1>2, <1>3, <2>1, ShelfWritten DEF StoreForm
<1>6. CustomerForm' /\ NobodyServed'
  BY <1>1, <1>3 DEF ShopInv, CustomerForm, NobodyServed, Writes, Moves
<1>7. \A t \in Shelves : storedge'[t] + taken'[t] = Stock + Package * brought'[t]
  <2> TAKE t \in Shelves
  <2>1. storedge[t] + taken[t] = Stock + Package * brought[t]
    BY DEF ShopInv, NothingLost
  <2>2. /\ storedge[t] \in Nat /\ taken'[t] = taken[t] /\ taken[t] \in Nat
        /\ brought[t] \in Nat
    BY <1>3 DEF ShopInv, StoreForm
  <2>3. CASE t = s
    <3>1. storedge'[t] = storedge[t] + Package /\ brought'[t] = brought[t] + 1
      BY <1>3, <1>4, <2>3 DEF ShopInv, StoreForm, s
    <3>2. Package * (brought[t] + 1) = Package * brought[t] + Package
      BY <1>1, <2>2
    <3>3. Package * brought[t] \in Nat
      BY <1>1, <2>2
    <3> QED
      BY <1>1, <2>1, <2>2, <3>1, <3>2, <3>3, ShopAssumption
  <2>4. CASE t # s
    <3>1. storedge'[t] = storedge[t] /\ brought'[t] = brought[t]
      BY <1>3, <1>4, <2>4 DEF ShopInv, StoreForm, s
    <3> QED
      BY <2>1, <2>2, <3>1
  <2> QED
    BY <2>3, <2>4
<1>8. \A d \in Customers : need'[d] + got'[d] = want'[d]
  BY <1>3 DEF ShopInv, NothingLost
<1> QED
  BY <1>4, <1>5, <1>6, <1>7, <1>8 DEF ShopInv, NothingLost

-----------------------------------------------------------------------------
(* Steps of main.                                                          *)

LEMMA ShopOpening == ASSUME ShopInv, ShopOpens PROVE ShopInv'
<1>1. /\ shopPc' = [w \in Workers |-> "while"] /\ need' \in [Customers -> Needs]
      /\ want' = need' /\ shopMain' = "join"
      /\ UNCHANGED <<storedge, cell, choice, seen, got, taken, brought>>
  BY DEF ShopOpens
<1>2. \A c \in Customers : got[c] = 0 /\ need'[c] \in Nat
  BY <1>1, ShopAssumption DEF ShopInv, NobodyServed, ShopOpens
<1>3. StoreForm'
  BY <1>1 DEF ShopInv, StoreForm, ShopPc
<1>4. CustomerForm'
  BY <1>1, ShopAssumption DEF ShopInv, CustomerForm
<1>5. ShelfHeld' /\ NobodyServed'
  BY <1>1 DEF ShelfHeld, NobodyServed
<1>6. NothingLost'
  <2>1. \A c \in Customers : need'[c] + got'[c] = want'[c]
    BY <1>1, <1>2
  <2> QED
    BY <1>1, <2>1 DEF ShopInv, NothingLost
<1> QED
  BY <1>3, <1>4, <1>5, <1>6 DEF ShopInv

LEMMA ShopStill ==
    ASSUME ShopInv, UNCHANGED storeVars, UNCHANGED <<need, want, got>>,
           shopMain' = "start" => shopMain = "start"
    PROVE  ShopInv'
  BY DEF storeVars, ShopInv, StoreForm, CustomerForm, ShelfHeld, NobodyServed,
         NothingLost

LEMMA ShopStep == ASSUME ShopInv, [ShopNext]_shopVars PROVE ShopInv'
<1>1. ASSUME NEW w \in Workers, Locks(w) \/ Acts(w) PROVE ShopInv'
  <2>1. CASE Locks(w)
    BY <2>1, ShopLock
  <2>2. CASE Puts
    BY <2>2, ShopPut
  <2>3. CASE w # Loader /\ Takes(w)
    BY <2>3, ShopTake DEF Workers
  <2> QED
    BY <1>1, <2>1, <2>2, <2>3 DEF Acts
<1>2. ASSUME NEW c \in Customers, GoesHome(c) \/ \E s \in Shelves : Comes(c, s)
      PROVE  ShopInv'
  <2>1. c \in Workers
    BY DEF Workers
  <2> QED
    BY <1>2, <2>1, ShopGone, ShopChoice DEF GoesHome, Comes
<1>3. ASSUME NEW s \in Shelves, Brings(s) PROVE ShopInv'
  BY <1>3, ShopChoice DEF Brings, Workers
<1>4. CASE LoaderStops
  BY <1>4, ShopGone DEF LoaderStops, Workers
<1>5. CASE ShopOpens
  BY <1>5, ShopOpening
<1>6. CASE StopsLoader
  BY <1>6, ShopStill DEF StopsLoader, storeVars, shopHistory
<1>7. CASE Closes
  BY <1>7, ShopStill DEF Closes, storeVars, shopHistory
<1>8. CASE UNCHANGED shopVars
  BY <1>8, ShopStill DEF shopVars, storeVars, shopHistory
<1> QED
  BY <1>1, <1>2, <1>3, <1>4, <1>5, <1>6, <1>7, <1>8 DEF ShopNext

(* Whatever the customers want and whenever the loader comes, a shelf      *)
(* holds what was put there and not yet taken, and a customer lacks what   *)
(* it has not got (main.c 30-46): no update of a shelf is lost.            *)
THEOREM NothingLostEver == ShopSpec => []NothingLost
<1>1. ShopInv => NothingLost
  BY DEF ShopInv
<1> QED
  BY <1>1, ShopStart, ShopStep, PTL DEF ShopSpec

(* Who has gone home needs nothing, and main stops the loader last.        *)
GoneServed ==
    /\ \A c \in Customers : shopPc[c] = "gone" => need[c] = 0
    /\ ~is_loader_working => \A c \in Customers : shopPc[c] = "gone"
    /\ shopMain \in {"start", "join"} => is_loader_working = TRUE

(* Nobody goes but who needs nothing, and whoever is gone stays so.        *)
LEMMA GoneMoves ==
    ASSUME ShopInv, GoneServed, NEW w \in Workers, NEW from, NEW to,
           Moves(w, from, to), from # "gone",
           w \in Customers /\ to = "gone" => need[w] = 0,
           \A c \in Customers \ {w} : need'[c] = need[c],
           to = "gone" => need' = need, UNCHANGED <<is_loader_working, shopMain>>
    PROVE  GoneServed'
<1>1. /\ shopPc[w] # "gone" /\ shopPc'[w] = to
      /\ \A v \in Workers \ {w} : shopPc'[v] = shopPc[v]
  BY DEF Moves, ShopInv, StoreForm
<1>2. Customers \subseteq Workers
  BY DEF Workers
<1>3. \A c \in Customers : shopPc'[c] = "gone" => need'[c] = 0
  <2> TAKE c \in Customers
  <2>1. CASE c = w
    BY <1>1, <2>1
  <2>2. CASE c # w
    BY <1>1, <1>2, <2>2 DEF GoneServed
  <2> QED
    BY <2>1, <2>2
<1>4. ASSUME ~is_loader_working', NEW c \in Customers PROVE shopPc'[c] = "gone"
  <2>1. shopPc[c] = "gone"
    BY <1>4 DEF GoneServed
  <2> QED
    BY <1>1, <1>2, <2>1
<1>5. shopMain' \in {"start", "join"} => is_loader_working' = TRUE
  BY DEF GoneServed
<1> QED
  BY <1>3, <1>4, <1>5 DEF GoneServed

LEMMA GoneStep ==
    ASSUME ShopInv, GoneServed, [ShopNext]_shopVars PROVE GoneServed'
<1>0. Loader \in Workers /\ Loader \notin Customers /\ Customers \subseteq Workers
  BY ShopAssumption DEF Workers
<1>1. ASSUME NEW w \in Workers, Locks(w) PROVE GoneServed'
  BY <1>1, GoneMoves DEF Locks
<1>2. ASSUME NEW c \in Customers, Takes(c) PROVE GoneServed'
  <2>1. /\ Moves(c, "locked", "while") /\ UNCHANGED <<is_loader_working, shopMain>>
        /\ \A d \in Customers \ {c} : need'[d] = need[d]
    BY <1>2 DEF Takes, Writes, ShopInv, CustomerForm
  <2> QED
    BY <1>0, <2>1, GoneMoves
<1>3. CASE Puts
  <2>1. /\ Moves(Loader, "locked", "while")
        /\ UNCHANGED <<is_loader_working, shopMain, need>>
    BY <1>3 DEF Puts, Writes
  <2> QED
    BY <1>0, <2>1, GoneMoves
<1>4. ASSUME NEW c \in Customers, GoesHome(c) PROVE GoneServed'
  BY <1>0, <1>4, GoneMoves DEF GoesHome, Leaves
<1>5. ASSUME NEW w \in Workers, NEW s \in Shelves, Chooses(w, s) PROVE GoneServed'
  BY <1>5, GoneMoves DEF Chooses
<1>6. CASE LoaderStops
  BY <1>0, <1>6, GoneMoves DEF LoaderStops, Leaves
<1>7. CASE ShopOpens
  <2>1. \A c \in Customers : shopPc'[c] # "gone"
    BY <1>0, <1>7 DEF ShopOpens
  <2> QED
    BY <1>7, <2>1 DEF ShopOpens, GoneServed
<1>8. CASE StopsLoader
  BY <1>8 DEF StopsLoader, GoneServed
<1>9. CASE Closes \/ UNCHANGED shopVars
  BY <1>9 DEF Closes, GoneServed, shopVars
<1> QED
  BY <1>0, <1>1, <1>2, <1>3, <1>4, <1>5, <1>6, <1>7, <1>8, <1>9
  DEF ShopNext, Acts, Comes, Brings, Workers

(* No customer is left before empty shelves, whatever its need and         *)
(* whoever takes the goods: main stops the loader when all have been       *)
(* served (main.c 51, 84, 125-130).                                         *)
THEOREM ServedBeforeStopAlways == ShopSpec => []ServedBeforeStop
<1>1. ShopInit => GoneServed
  BY ShopAssumption DEF ShopInit, GoneServed, Workers
<1>2. ShopInv /\ GoneServed => ServedBeforeStop
  <2> SUFFICES ASSUME ShopInv, GoneServed, ~is_loader_working, NEW c \in Customers
               PROVE  got[c] = want[c]
    BY DEF ServedBeforeStop
  <2>1. need[c] = 0
    BY DEF GoneServed
  <2>2. need[c] + got[c] = want[c] /\ got[c] \in Nat /\ want[c] \in Nat
    BY DEF ShopInv, NothingLost, CustomerForm
  <2> QED
    BY <2>1, <2>2
<1>3. ShopInv /\ GoneServed /\ [ShopNext]_shopVars => ShopInv' /\ GoneServed'
  BY ShopStep, GoneStep
<1> QED
  BY <1>1, <1>2, <1>3, ShopStart, PTL DEF ShopSpec

(* Two threads are never between lock and unlock of the same shelf.        *)
THEOREM OneAtAShelf ==
    ShopSpec => [](\A v, w \in Workers :
                      /\ v # w /\ shopPc[v] = "locked" /\ shopPc[w] = "locked"
                      => choice[v] # choice[w])
<1>1. ShopInv => \A v, w \in Workers :
                    /\ v # w /\ shopPc[v] = "locked" /\ shopPc[w] = "locked"
                    => choice[v] # choice[w]
  BY DEF ShopInv, ShelfHeld
<1> QED
  BY <1>1, ShopStart, ShopStep, PTL DEF ShopSpec

-----------------------------------------------------------------------------
(***************************************************************************)
(* Exchanges.  The invariant says what is in the memory or in the queue    *)
(* for each pair of places where the two programs may stand together.      *)
(***************************************************************************)

ExchangeSpec == ExchangeInit /\ [][ExchangeNext]_exchangeVars

Texts == {Hello, Hi}

ExchangeForm ==
    /\ pair \in {"posix shm", "sysv shm", "posix mq", "sysv mq"}
    /\ patient \in BOOLEAN /\ object \in BOOLEAN
    /\ text \in {Unset, Hello, Hi}
    /\ mq \in [Texts -> Nat] /\ kills \in Nat
    /\ reads \in [{"server", "client"} -> {Unset, Hello, Hi}]

BothRead == client = "gone" /\ reads["server"] = Hi /\ reads["client"] = Hello

(* Shared memory and a patient user: the client starts and ends while the  *)
(* server sleeps, and what a killed server has left is overwritten before. *)
Remembered ==
    ~Queued /\ patient =>
        /\ server \in {"off", "lock", "write", "post", "sleep", "again",
                       "read", "remove", "gone"}
        /\ server \in {"off", "lock", "write", "post"} => client = "off"
        /\ server = "post" => text = Hello
        /\ server \in {"lock", "write", "post", "sleep"} => object
        /\ server = "sleep" =>
              /\ client \in {"off", "lock", "read", "write", "post", "gone"}
              /\ client \in {"off", "lock", "read"} => text = Hello
              /\ client \in {"post", "gone"} => text = Hi
              /\ client \in {"write", "post", "gone"} => reads["client"] = Hello
        /\ server \in {"again", "read"} =>
              client = "gone" /\ text = Hi /\ reads["client"] = Hello
        /\ server \in {"remove", "gone"} => BothRead

(* A queue of the first server: it holds the text of the server until the  *)
(* client has read it, and that of the client until the server has.        *)
QueueHolds ==
    /\ mq[Hello] = IF server \notin {"off", "send"} /\ reads["client"] = Unset
                   THEN 1 ELSE 0
    /\ mq[Hi] = IF /\ client = "gone" /\ reads["client"] = Hello
                   /\ server \notin {"remove", "gone"}
                THEN 1 ELSE 0

NewQueue == Queued /\ kills = 0 /\ (patient \/ pair = "sysv mq")

Passed ==
    NewQueue =>
        /\ server \in {"off", "send", "sleep", "receive", "remove", "gone"}
        /\ client \in {"off", "receive", "send", "gone"}
        /\ object <=> server \notin {"off", "gone"}
        /\ client = "receive" => object
        /\ client \in {"off", "receive"} => reads["client"] = Unset
        /\ client = "send" => reads["client"] = Hello
        /\ reads["client"] \in {Unset, Hello}
        /\ reads["client"] = Hello => server \notin {"off", "send"}
        /\ QueueHolds
        /\ server \in {"remove", "gone"} => BothRead
        /\ ~Sysv =>
              /\ server \in {"off", "send"} => client = "off"
              /\ client = "gone" => reads["client"] = Hello
              /\ server = "receive" => client = "gone"

ExchangeInv == ExchangeForm /\ Remembered /\ Passed

LEMMA ExchangeStart == ExchangeInit => ExchangeInv
<1> SUFFICES ASSUME ExchangeInit PROVE ExchangeInv
  OBVIOUS
<1>1. mq = [t \in Texts |-> 0] /\ mq[Hello] = 0 /\ mq[Hi] = 0
  BY DEF ExchangeInit, Texts
<1>2. reads["server"] = Unset /\ reads["client"] = Unset
  BY DEF ExchangeInit, NothingRead
<1>3. ExchangeForm
  <2>1. reads \in [{"server", "client"} -> {Unset, Hello, Hi}]
    BY DEF ExchangeInit, NothingRead
  <2>2. mq \in [Texts -> Nat] /\ kills \in Nat
    BY <1>1 DEF ExchangeInit
  <2> QED
    BY <2>1, <2>2, ExchangesAssumption DEF ExchangeInit, ExchangeForm
<1>4. Remembered
  BY DEF ExchangeInit, Remembered
<1>5. Passed
  BY <1>1, <1>2 DEF ExchangeInit, Passed, NewQueue, QueueHolds, Unset, Hello
<1> QED
  BY <1>3, <1>4, <1>5 DEF ExchangeInv

(* What a send and a receipt do to the queue.                              *)
LEMMA Enqueued ==
    ASSUME mq \in [Texts -> Nat], NEW t \in Texts, Enqueue(t)
    PROVE  /\ mq' \in [Texts -> Nat] /\ (mq[t] = 0 => mq'[t] = 1)
           /\ \A u \in Texts : u # t => mq'[u] = mq[u]
  BY DEF Enqueue

LEMMA Dequeued ==
    ASSUME mq \in [Texts -> Nat], NEW t \in Texts, mq[t] > 0,
           mq' = [mq EXCEPT ![t] = @ - 1]
    PROVE  /\ mq' \in [Texts -> Nat] /\ mq[t] # 0 /\ (mq[t] = 1 => mq'[t] = 0)
           /\ \A u \in Texts : u # t => mq'[u] = mq[u]
  OBVIOUS

LEMMA ServerStep == ASSUME ExchangeInv, ServerRuns PROVE ExchangeInv'
<1> USE DEF ExchangeInv, ExchangeForm, Remembered, Passed, NewQueue, QueueHolds, BothRead,
            Texts, Hello, Hi, Unset, Queued, Sysv, Goes
<1>1. CASE ServerOpens
  BY <1>1 DEF ServerOpens
<1>2. CASE ServerLocks
  BY <1>2 DEF ServerLocks
<1>3. CASE ServerWrites
  BY <1>3 DEF ServerWrites
<1>4. CASE ServerPosts
  BY <1>4 DEF ServerPosts
<1>5. CASE ServerSends
  <2>1. /\ mq' \in [Texts -> Nat] /\ (mq[Hello] = 0 => mq'[Hello] = 1)
        /\ mq'[Hi] = mq[Hi]
    BY <1>5, Enqueued DEF ServerSends
  <2> QED
    BY <1>5, <2>1 DEF ServerSends
<1>6. CASE Wakes
  BY <1>6 DEF Wakes
<1>7. CASE ServerLocksAgain
  BY <1>7 DEF ServerLocksAgain
<1>8. CASE ServerReads
  BY <1>8 DEF ServerReads
<1>9. CASE Removes
  BY <1>9 DEF Removes
<1>10. ASSUME NEW t \in Texts, ServerReceives(t) PROVE ExchangeInv'
  <2>1. mq[t] > 0 /\ mq' = [mq EXCEPT ![t] = @ - 1]
    BY <1>10 DEF ServerReceives, Receivable
  <2>2. /\ mq' \in [Texts -> Nat] /\ mq[t] # 0 /\ (mq[t] = 1 => mq'[t] = 0)
        /\ \A u \in Texts : u # t => mq'[u] = mq[u]
    BY <2>1, Dequeued
  <2>3. server = "receive" /\ server' = "remove"
        /\ reads' = [reads EXCEPT !.server = t]
        /\ UNCHANGED <<pair, patient, object, text, client, kills>>
        /\ (IF Sysv THEN t = Hi ELSE t = Hello \/ mq[Hello] = 0)
    BY <1>10 DEF ServerReceives, Receivable, Goes
  <2>4. ExchangeForm'
    BY <2>2, <2>3
  <2>5. Remembered'
    BY <2>3
  <2>6. Passed'
    <3> HAVE NewQueue'
    <3>1. t = Hi
      BY <2>2, <2>3
    <3> QED
      BY <2>2, <2>3, <3>1
  <2> QED
    BY <2>4, <2>5, <2>6
<1> QED
  BY <1>1, <1>2, <1>3, <1>4, <1>5, <1>6, <1>7, <1>8, <1>9, <1>10 DEF ServerRuns

LEMMA ClientStep == ASSUME ExchangeInv, ClientRuns PROVE ExchangeInv'
<1> USE DEF ExchangeInv, ExchangeForm, Remembered, Passed, NewQueue, QueueHolds, BothRead,
            Texts, Hello, Hi, Unset, Queued, Sysv, Follows, There
<1>1. CASE ClientOpens
  BY <1>1 DEF ClientOpens
<1>2. CASE ClientLocks
  BY <1>2 DEF ClientLocks
<1>3. CASE ClientReads
  BY <1>3 DEF ClientReads
<1>4. CASE ClientWrites
  BY <1>4 DEF ClientWrites
<1>5. CASE ClientPosts
  BY <1>5 DEF ClientPosts
<1>6. CASE ClientSends
  <2>1. /\ mq' \in [Texts -> Nat] /\ (mq[Hi] = 0 => mq'[Hi] = 1)
        /\ mq'[Hello] = mq[Hello]
    BY <1>6, Enqueued DEF ClientSends
  <2> QED
    BY <1>6, <2>1 DEF ClientSends
<1>7. CASE ClientFails
  BY <1>7 DEF ClientFails
<1>8. ASSUME NEW t \in Texts, ClientReceives(t) PROVE ExchangeInv'
  <2>1. mq[t] > 0 /\ mq' = [mq EXCEPT ![t] = @ - 1]
    BY <1>8 DEF ClientReceives, Receivable
  <2>2. /\ mq' \in [Texts -> Nat] /\ mq[t] # 0 /\ (mq[t] = 1 => mq'[t] = 0)
        /\ \A u \in Texts : u # t => mq'[u] = mq[u]
    BY <2>1, Dequeued
  <2>3. client = "receive" /\ client' = "send"
        /\ reads' = [reads EXCEPT !.client = t]
        /\ UNCHANGED <<pair, patient, object, text, server, kills>>
        /\ (IF Sysv THEN t = Hello ELSE t = Hello \/ mq[Hello] = 0)
    BY <1>8 DEF ClientReceives, Receivable, Follows
  <2>4. ExchangeForm'
    BY <2>2, <2>3
  <2>5. Remembered'
    BY <2>3
  <2>6. Passed'
    <3> HAVE NewQueue'
    <3>1. t = Hello
      BY <2>2, <2>3
    <3> QED
      BY <2>2, <2>3, <3>1
  <2> QED
    BY <2>4, <2>5, <2>6
<1> QED
  BY <1>1, <1>2, <1>3, <1>4, <1>5, <1>6, <1>7, <1>8 DEF ClientRuns

LEMMA KillStep == ASSUME ExchangeInv, ServerKilled PROVE ExchangeInv'
<1>1. ExchangeForm'
  <2>1. reads' \in [{"server", "client"} -> {Unset, Hello, Hi}]
    BY DEF ServerKilled, NothingRead
  <2>2. kills \in Nat /\ kills' = kills + 1
    BY DEF ExchangeInv, ExchangeForm, ServerKilled
  <2>3. kills' \in Nat
    BY <2>2
  <2> QED
    BY <2>1, <2>3 DEF ExchangeInv, ExchangeForm, ServerKilled, Texts
<1>2. Remembered'
  BY DEF ExchangeInv, ServerKilled, Remembered, Queued
<1>3. kills' # 0
  <2>1. kills \in Nat /\ kills' = kills + 1
    BY DEF ExchangeInv, ExchangeForm, ServerKilled
  <2> QED
    BY <2>1
<1> QED
  BY <1>1, <1>2, <1>3 DEF ExchangeInv, Passed, NewQueue

LEMMA ExchangeStep ==
    ASSUME ExchangeInv, [ExchangeNext]_exchangeVars PROVE ExchangeInv'
<1>1. CASE UNCHANGED exchangeVars
  <2>1. /\ UNCHANGED <<pair, patient, object, text, mq, kills, reads>>
        /\ UNCHANGED <<server, client>>
    BY <1>1 DEF exchangeVars
  <2>2. ExchangeForm'
    BY <2>1 DEF ExchangeInv, ExchangeForm
  <2>3. Remembered'
    BY <2>1 DEF ExchangeInv, Remembered, BothRead, Queued
  <2>4. Passed'
    BY <2>1 DEF ExchangeInv, Passed, NewQueue, QueueHolds, BothRead, Queued, Sysv
  <2> QED
    BY <2>2, <2>3, <2>4 DEF ExchangeInv
<1> QED
  BY <1>1, ServerStep, ClientStep, KillStep DEF ExchangeNext

(* When both are done each has read the text of the other.  Over shared    *)
(* memory and the POSIX queue this rests on a user who runs the client     *)
(* while the server sleeps and kills neither in the middle; over the types *)
(* of the System V queue it does not.  Over shared memory it holds after   *)
(* any number of earlier kills, over a queue only when it is new (task13,  *)
(* task14: server.c, client.c).                                            *)
THEOREM EachReadsOtherAlways == ExchangeSpec => []EachReadsOther
<1>1. ExchangeInv => EachReadsOther
  <2>1. ExchangeInv /\ BothRead => reads = [server |-> Hi, client |-> Hello]
    BY DEF ExchangeInv, ExchangeForm, BothRead
  <2> QED
    BY <2>1 DEF ExchangeInv, Remembered, Passed, NewQueue, EachReadsOther,
           Queued
<1> QED
  BY <1>1, ExchangeStart, ExchangeStep, PTL DEF ExchangeSpec
=============================================================================
