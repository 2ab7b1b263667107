-------------------------- MODULE DirectoriesProofs --------------------------
(***************************************************************************)
(* ClearedBehind of the array directory, WellLinked of the linked one, and *)
(* that both implement Directory, for any capacity, any names and any      *)
(* addresses.                                                              *)
(***************************************************************************)
EXTENDS Directories, WellFoundedInduction, SequenceTheorems,
        FiniteSetTheorems, TLAPS

(* Who is in use has a name that a user can type, who is not has none; so  *)
(* what a search finds is in use.                                          *)
ArrayInv ==
    /\ used \in 0..Capacity
    /\ DOMAIN directory = Indices
    /\ \A i \in Indices : i < used => directory[i].name # Empty
    /\ ClearedBehind

(* The array starts empty and cleared (directory_init).                    *)
LEMMA ArrayInvInit == Init => ArrayInv
  BY SubscribersAssumption
  DEF Init, ArrayInit, ArrayInv, ClearedBehind, Indices

(* Every nonempty set of naturals has a least element.                     *)
LEMMA LeastOf ==
    ASSUME NEW S \in SUBSET Nat, S # {}
    PROVE  \E i \in S : \A j \in S : i <= j
<1> DEFINE Below == {p \in Nat \X Nat : p[1] < p[2]}
<1>1. IsWellFoundedOn(Below, Nat)
  <2>1. Below = OpToRel(<, Nat)
    BY DEF OpToRel
  <2> HIDE DEF Below
  <2> QED
    BY <2>1, NatLessThanWellFounded, Zenon
<1>2. \E i \in S : \A j \in S : ~(<<j, i>> \in Below)
  <2> HIDE DEF Below
  <2>1. S \subseteq Nat
    OBVIOUS
  <2>2. \A R, X, T : IsWellFoundedOn(R, X) /\ T \subseteq X /\ T # {}
            => \E x \in T : \A y \in T : ~(<<y, x>> \in R)
    BY WFMin, Zenon
  <2> QED
    BY <1>1, <2>1, <2>2, Zenon
<1>3. PICK least \in S : \A j \in S : ~(<<j, least>> \in Below)
  BY <1>2
<1>4. ASSUME NEW j \in S
      PROVE  least <= j
  <2>1. j \in Nat /\ least \in Nat
    OBVIOUS
  <2>2. j < least => <<j, least>> \in Below
    BY <2>1
  <2> HIDE DEF Below
  <2> QED
    BY <1>3, <2>1, <2>2
<1> QED
  BY <1>4

(* What find_abonent_index finds is the first from there on with the name. *)
LEMMA FoundFirst ==
    ASSUME NEW name, NEW index \in Nat, FindIndex(name, index) # -1
    PROVE  /\ FindIndex(name, index) \in Indices
           /\ FindIndex(name, index) >= index
           /\ directory[FindIndex(name, index)].name = name
           /\ \A j \in Indices : j >= index /\ directory[j].name = name =>
                 FindIndex(name, index) <= j
<1> DEFINE hits == {i \in Indices : i >= index /\ directory[i].name = name}
<1>1. hits # {} /\ hits \in SUBSET Nat
  BY SubscribersAssumption DEF FindIndex, Indices
<1>2. PICK first \in hits : \A j \in hits : first <= j
  BY <1>1, LeastOf
<1>3. FindIndex(name, index) = CHOOSE i \in hits : \A j \in hits : i <= j
  BY <1>1 DEF FindIndex
<1> QED
  BY <1>2, <1>3

(* If it finds none, there is none.                                        *)
LEMMA FoundNone ==
    ASSUME NEW name, NEW index \in Nat
    PROVE  /\ FindIndex(name, index) \in Indices \cup {-1}
           /\ FindIndex(name, index) < 0 <=> FindIndex(name, index) = -1
           /\ FindIndex(name, index) = -1 =>
                 \A j \in Indices : j >= index => directory[j].name # name
<1> DEFINE hits == {i \in Indices : i >= index /\ directory[i].name = name}
<1>1. FindIndex(name, index) = -1 \/ FindIndex(name, index) \in Indices
  BY FoundFirst
<1>2. \A i \in Indices : i >= 0
  BY SubscribersAssumption DEF Indices
<1>3. CASE hits = {}
  BY <1>1, <1>2, <1>3 DEF FindIndex
<1>4. CASE hits # {}
  <2>1. hits \in SUBSET Nat
    BY SubscribersAssumption DEF Indices
  <2>2. PICK first \in hits : \A j \in hits : first <= j
    BY <1>4, <2>1, LeastOf
  <2>3. FindIndex(name, index) = CHOOSE i \in hits : \A j \in hits : i <= j
    BY <1>4 DEF FindIndex
  <2>4. FindIndex(name, index) \in Indices
    BY <2>2, <2>3
  <2>5. FindIndex(name, index) >= 0
    BY <1>2, <2>4
  <2> HIDE DEF hits
  <2> QED
    BY <2>4, <2>5, SubscribersAssumption DEF Indices
<1> QED
  BY <1>3, <1>4

(* The name is nobody's whose entry is cleared, so the entry is in use.    *)
LEMMA FoundInUse ==
    ASSUME ArrayInv, NEW name \in Names, FindIndex(name, 0) # -1
    PROVE  FindIndex(name, 0) \in 0..(used - 1)
  BY FoundFirst, SubscribersAssumption, EmptyAssumption
  DEF ArrayInv, ClearedBehind, Cleared, Indices

(* An entry is filled before it counts.                                    *)
LEMMA AddKeeps ==
    ASSUME ArrayInv, NEW abonent \in Abonent, ArrayAdd(abonent)
    PROVE  ArrayInv'
  BY SubscribersAssumption, EmptyAssumption
  DEF ArrayInv, ArrayAdd, ClearedBehind, Indices, Abonent

(* The entries move up, the last of them is cleared.                       *)
LEMMA RemoveKeeps ==
    ASSUME ArrayInv, NEW name \in Names, ArrayRemove(name)
    PROVE  ArrayInv'
<1> DEFINE index == FindIndex(name, 0)
<1>1. CASE index < 0
  BY <1>1 DEF ArrayInv, ArrayRemove, ClearedBehind, Indices
<1>2. CASE ~(index < 0)
  <2>1. index \in 0..(used - 1)
    BY <1>2, FoundInUse DEF ArrayInv
  <2> HIDE DEF index
  <2>2. /\ used' = used - 1
        /\ directory' = [i \in Indices |->
                            IF i >= index /\ i < used - 1
                            THEN directory[i + 1]
                            ELSE IF i = used - 1 THEN Cleared
                            ELSE directory[i]]
    BY <1>2 DEF ArrayRemove, index
  <2>3. used' \in 0..Capacity /\ DOMAIN directory' = Indices
    BY <2>1, <2>2, SubscribersAssumption DEF ArrayInv
  <2>4. \A i \in Indices : i < used' => directory'[i].name # Empty
    BY <2>1, <2>2, SubscribersAssumption DEF ArrayInv, Indices
  <2>5. ClearedBehind'
    BY <2>1, <2>2, SubscribersAssumption DEF ArrayInv, ClearedBehind, Indices
  <2> QED
    BY <2>3, <2>4, <2>5 DEF ArrayInv, Indices
<1> QED
  BY <1>1, <1>2

(* Every step of either program keeps the invariant.                       *)
LEMMA ArrayInvStep == ArrayInv /\ [Next]_vars => ArrayInv'
<1> SUFFICES ASSUME ArrayInv, [Next]_vars
             PROVE  ArrayInv'
  OBVIOUS
<1>1. CASE UNCHANGED <<directory, used>>
  BY <1>1 DEF ArrayInv, ClearedBehind, Indices
<1>2. ASSUME NEW abonent \in Abonent, ArrayAdd(abonent)
      PROVE  ArrayInv'
  BY <1>2, AddKeeps
<1>3. ASSUME NEW name \in Names, ArrayRemove(name)
      PROVE  ArrayInv'
  BY <1>3, RemoveKeeps
<1>4. CASE ArrayEnd
  BY <1>4, SubscribersAssumption
  DEF ArrayInv, ArrayEnd, ClearedBehind, Indices
<1> QED
  BY <1>1, <1>2, <1>3, <1>4
  DEF Next, vars, ArrayNext, ArraySearch, ArrayShow, arrayVars

(* What is not in use is cleared, whatever is added and removed: a search  *)
(* of the whole array finds nobody who was removed.                        *)
THEOREM ClearedAlways == Spec => []ClearedBehind
<1>1. ArrayInv => ClearedBehind
  BY DEF ArrayInv
<1> QED
  BY ArrayInvInit, ArrayInvStep, <1>1, PTL DEF Spec
-----------------------------------------------------------------------------
(***************************************************************************)
(* The list.  Its cells are a function w that starts at head and follows   *)
(* next; a walk is that function, however far it goes.                     *)
(***************************************************************************)

(* What the walk is, whoever defines it: recursion has one solution.       *)
LEMMA WalkIs ==
    ASSUME NEW n \in Nat, NEW w,
           w = [i \in 1..n |-> IF i = 1 THEN head ELSE next[w[i-1]]]
    PROVE  Walk(n) = w
<1> DEFINE Step(f) == [i \in 1..n |-> IF i = 1 THEN head ELSE next[f[i-1]]]
           c == CHOOSE f : f = Step(f)
<1>1. c = Step(c)
  <2>1. \E f : f = Step(f)
    OBVIOUS
  <2> QED
    BY <2>1
<1>2. Walk(n) = [i \in 1..n |-> c[i]]
  BY DEF Walk
<1> HIDE DEF c
<1>3. \A i \in 1..n : c[i] = IF i = 1 THEN head ELSE next[c[i-1]]
  BY <1>1
<1>4. \A i \in 1..n : w[i] = IF i = 1 THEN head ELSE next[w[i-1]]
  OBVIOUS
<1>5. \A i \in 1..n : c[i] = w[i]
  <2> DEFINE S == {i \in 1..n : c[i] # w[i]}
  <2> SUFFICES ASSUME S # {} PROVE FALSE
    OBVIOUS
  <2>1. S \in SUBSET Nat
    OBVIOUS
  <2>2. PICK k \in S : \A j \in S : k <= j
    BY <2>1, LeastOf
  <2>3. k \in 1..n /\ c[k] # w[k]
    OBVIOUS
  <2>4. CASE k = 1
    BY <1>3, <1>4, <2>3, <2>4
  <2>5. CASE k # 1
    <3>1. k - 1 \in 1..n /\ ~(k <= k - 1)
      BY <2>3, <2>5
    <3>2. c[k-1] = w[k-1]
      BY <2>2, <3>1
    <3> QED
      BY <1>3, <1>4, <2>3, <2>5, <3>2
  <2> QED
    BY <2>4, <2>5
<1> QED
  BY <1>2, <1>5

(* The cells w[1] to w[n], all different, are linked both ways.            *)
Linked(w, n, first, last, after, before) ==
    /\ n \in Nat /\ w \in [1..n -> Cells]
    /\ \A i, j \in 1..n : w[i] = w[j] => i = j
    /\ n = 0 => first = NULL
    /\ n # 0 => /\ first = w[1] /\ before[first] = NULL
                /\ last = w[n] /\ after[last] = NULL
    /\ \A i \in 1..n :
          i # 1 => after[w[i-1]] = w[i] /\ before[w[i]] = w[i-1]

(* w is the list, and no other cell is allocated.                          *)
IsList(w) ==
    /\ Linked(w, capacity, head, tail, next, prev)
    /\ allocated = {w[i] : i \in 1..capacity}

(* The list has its cells in some order w.                                 *)
ListInv ==
    /\ next \in [Cells -> Cells \cup {NULL}]
    /\ prev \in [Cells -> Cells \cup {NULL}]
    /\ \E w : IsList(w)

(* The walk of the program goes over the cells of the list.                *)
LEMMA ListWalked ==
    ASSUME NEW w, IsList(w)
    PROVE  Walk(capacity) = w
<1>1. capacity \in Nat /\ w = [i \in 1..capacity |-> w[i]]
  BY DEF IsList, Linked
<1>2. \A i \in 1..capacity :
         w[i] = IF i = 1 THEN head ELSE next[w[i-1]]
  <2> TAKE i \in 1..capacity
  <2>1. CASE i = 1
    <3>1. capacity # 0
      BY <1>1
    <3> QED
      BY <2>1, <3>1 DEF IsList, Linked
  <2>2. CASE i # 1
    BY <2>2 DEF IsList, Linked
  <2> QED
    BY <2>1, <2>2
<1>3. w = [i \in 1..capacity |-> IF i = 1 THEN head ELSE next[w[i-1]]]
  BY <1>1, <1>2
<1> QED
  BY <1>1, <1>3, WalkIs

(* next and prev agree everywhere, so the walk of the program is w.        *)
LEMMA ListLinked == ListInv => WellLinked
<1> SUFFICES ASSUME NEW w, IsList(w) PROVE WellLinked
  BY DEF ListInv
<1>1. Walk(capacity) = w
  BY ListWalked
<1>2. \A i \in 2..capacity : i \in 1..capacity /\ i # 1
  BY DEF IsList, Linked
<1>3. capacity > 0 => capacity # 0
  BY DEF IsList, Linked
<1> QED
  BY <1>1, <1>2, <1>3 DEF WellLinked, IsList, Linked

(* What the search finds is in the list, the first of its name.            *)
LEMMA ListFound ==
    ASSUME NEW w, IsList(w), NEW name
    PROVE  \/ /\ CellSearch(name) = NULL
              /\ \A i \in 1..capacity : data[w[i]].name # name
           \/ \E k \in 1..capacity :
                 /\ CellSearch(name) = w[k] /\ w[k] # NULL
                 /\ data[w[k]].name = name
                 /\ \A j \in 1..capacity : data[w[j]].name = name => k <= j
<1> DEFINE hits == {i \in 1..capacity : data[Walk(capacity)[i]].name = name}
<1>1. Walk(capacity) = w /\ capacity \in Nat
  BY ListWalked DEF IsList, Linked
<1>2. CASE hits = {}
  BY <1>1, <1>2 DEF CellSearch
<1>3. CASE hits # {}
  <2>1. hits \in SUBSET Nat
    BY <1>1
  <2>2. \E k \in hits : \A j \in hits : k <= j
    BY <1>3, <2>1, LeastOf
  <2> DEFINE k == CHOOSE i \in hits : \A j \in hits : i <= j
  <2>3. k \in hits /\ \A j \in hits : k <= j
    BY <2>2
  <2>4. CellSearch(name) = w[k]
    BY <1>1, <1>3 DEF CellSearch
  <2> HIDE DEF k
  <2>5. k \in 1..capacity /\ data[w[k]].name = name
    BY <1>1, <2>3
  <2>6. w[k] # NULL
    BY <2>5, CellsAssumption DEF IsList, Linked
  <2> QED
    BY <1>1, <2>3, <2>4, <2>5, <2>6
<1> QED
  BY <1>2, <1>3

(* The cells of the next state.                                            *)
LEMMA ListAgain ==
    ASSUME next' \in [Cells -> Cells \cup {NULL}],
           prev' \in [Cells -> Cells \cup {NULL}],
           NEW w, Linked(w, capacity', head', tail', next', prev'),
           allocated' = {w[i] : i \in 1..capacity'}
    PROVE  ListInv' /\ IsList(w)'
<1>1. IsList(w)'
  BY DEF IsList
<1> QED
  BY <1>1 DEF ListInv

(* v is w with one more at the end, the (n+1)-th.                          *)
With(v, w, n, cell) == v[n+1] = cell /\ \A i \in 1..n : v[i] = w[i]

(* A new cell behind the last.                                             *)
LEMMA ListAdds ==
    ASSUME ListInv, NEW w, IsList(w), NEW abonent, NEW cell,
           CellAdd(abonent, cell)
    PROVE  ListInv' /\ \E v : IsList(v)' /\ With(v, w, capacity, cell)
<1> DEFINE n == capacity + 1
           v == [i \in 1..n |-> IF i = n THEN cell ELSE w[i]]
<1>1. /\ capacity \in Nat /\ n \in Nat /\ n # 0 /\ capacity' = n
      /\ 1..n = 1..capacity \cup {n} /\ n \notin 1..capacity
      /\ capacity = 0 <=> n = 1
      /\ \A i \in 1..n : i # 1 => i - 1 \in 1..capacity
      /\ \A i \in 1..capacity : i # n
  BY DEF IsList, Linked, CellAdd
<1>2. /\ cell \in Cells /\ \A i \in 1..capacity : w[i] \in Cells /\ w[i] # cell
  BY DEF IsList, Linked, CellAdd
<1>3. v \in [1..n -> Cells]
  BY <1>1, <1>2
<1>4. v[n] = cell /\ \A i \in 1..capacity : v[i] = w[i]
  BY <1>1
<1> HIDE DEF n, v
<1>5. \A i, j \in 1..n : v[i] = v[j] => i = j
  BY <1>1, <1>2, <1>4 DEF IsList, Linked
<1>6. allocated' = {v[i] : i \in 1..n}
  BY <1>1, <1>4 DEF IsList, Linked, CellAdd
<1> SUFFICES /\ next' \in [Cells -> Cells \cup {NULL}]
             /\ prev' \in [Cells -> Cells \cup {NULL}]
             /\ Linked(v, n, head', tail', next', prev')
  <2>1. PICK u : u = v
    OBVIOUS
  <2>2. ListInv' /\ IsList(u)'
    BY <1>1, <1>6, <2>1, ListAgain
  <2>3. With(u, w, capacity, cell)
    BY <1>4, <2>1 DEF With, n
  <2> QED
    BY <2>2, <2>3
<1>7. CASE capacity = 0
  <2>1. head = NULL /\ n = 1 /\ 1..n = {1}
    BY <1>1, <1>7 DEF IsList, Linked
  <2>2. /\ head' = cell /\ tail' = cell
        /\ next' = [next EXCEPT ![cell] = NULL]
        /\ prev' = [prev EXCEPT ![cell] = NULL]
    BY <2>1 DEF CellAdd
  <2>3. /\ next' \in [Cells -> Cells \cup {NULL}] /\ next'[cell] = NULL
        /\ prev' \in [Cells -> Cells \cup {NULL}] /\ prev'[cell] = NULL
    BY <1>2, <2>2 DEF ListInv
  <2>4. Linked(v, n, head', tail', next', prev')
    BY <1>1, <1>3, <1>4, <1>5, <1>6, <2>1, <2>2, <2>3 DEF Linked
  <2> QED
    BY <2>3, <2>4
<1>8. CASE capacity # 0
  <2>1. /\ head = w[1] /\ head # NULL /\ prev[head] = NULL
        /\ tail = w[capacity]
        /\ 1 \in 1..capacity /\ capacity \in 1..capacity
        /\ head \in Cells /\ tail \in Cells /\ tail # cell /\ head # cell
    BY <1>1, <1>2, <1>8, CellsAssumption DEF IsList, Linked
  <2>2. /\ head' = head /\ tail' = cell
        /\ next' = [next EXCEPT ![cell] = NULL, ![tail] = cell]
        /\ prev' = [prev EXCEPT ![cell] = tail]
    BY <2>1 DEF CellAdd
  <2>3. /\ next' \in [Cells -> Cells \cup {NULL}]
        /\ prev' \in [Cells -> Cells \cup {NULL}]
        /\ next'[cell] = NULL /\ next'[tail] = cell /\ prev'[cell] = tail
        /\ \A c \in Cells : c # cell /\ c # tail => next'[c] = next[c]
        /\ \A c \in Cells : c # cell => prev'[c] = prev[c]
    BY <1>2, <2>1, <2>2 DEF ListInv
  <2>4. ASSUME NEW i \in 1..n, i # 1
        PROVE  next'[v[i-1]] = v[i] /\ prev'[v[i]] = v[i-1]
    <3>1. i - 1 \in 1..capacity /\ v[i-1] = w[i-1]
      BY <1>1, <1>4, <2>4
    <3>2. CASE i = n
      <4>1. i - 1 = capacity
        BY <1>1, <3>2 DEF n
      <4> QED
        BY <1>4, <2>1, <2>3, <3>1, <3>2, <4>1
    <3>3. CASE i # n
      <4>1. i \in 1..capacity /\ i - 1 # capacity
        BY <1>1, <2>4, <3>3 DEF n
      <4>2. w[i-1] # tail /\ w[i-1] # cell /\ w[i] # cell
        BY <1>2, <2>1, <3>1, <4>1 DEF IsList, Linked
      <4> QED
        BY <1>2, <1>4, <2>3, <2>4, <3>1, <4>1, <4>2 DEF IsList, Linked
    <3> QED
      BY <3>2, <3>3
  <2>5. Linked(v, n, head', tail', next', prev')
    BY <1>1, <1>3, <1>4, <1>5, <1>6, <2>1, <2>2, <2>3, <2>4 DEF Linked
  <2> QED
    BY <2>3, <2>5
<1> QED
  BY <1>7, <1>8

(* t is the first n elements of s, the k-th of them left out.              *)
Without(t, s, n, k) ==
    \A i \in 1..(n-1) : t[i] = IF i < k THEN s[i] ELSE s[i+1]

(* A cell taken out of the middle or from either end.                      *)
LEMMA ListUnlinks ==
    ASSUME ListInv, NEW w, IsList(w), NEW k \in 1..capacity, Unlink(w[k]),
           capacity' = capacity - 1, allocated' = allocated \ {w[k]}
    PROVE  ListInv' /\ \E v : IsList(v)' /\ Without(v, w, capacity, k)
<1> DEFINE n == capacity
           m == n - 1
           v == [i \in 1..m |-> IF i < k THEN w[i] ELSE w[i+1]]
<1>1. /\ n \in Nat /\ m \in Nat /\ n # 0 /\ m = n - 1
      /\ k \in Nat /\ 1 <= k /\ k <= n
      /\ 1 \in 1..n /\ n \in 1..n
      /\ m = 0 <=> n = 1
      /\ \A i \in 1..m : i \in 1..n /\ i + 1 \in 1..n
      /\ m # 0 => 1 \in 1..m /\ m \in 1..m
  BY DEF IsList, Linked
<1>2. /\ \A i \in 1..n : w[i] \in Cells /\ w[i] # NULL
      /\ \A i, j \in 1..n : w[i] = w[j] => i = j
  BY CellsAssumption DEF IsList, Linked
<1>3. \A i \in 1..m : v[i] = IF i < k THEN w[i] ELSE w[i+1]
  OBVIOUS
<1>4. v \in [1..m -> Cells]
  BY <1>1, <1>2
<1> HIDE DEF v
<1>5. ASSUME NEW i \in 1..m, NEW j \in 1..m, v[i] = v[j]
      PROVE  i = j
  <2> DEFINE ii == IF i < k THEN i ELSE i + 1
             jj == IF j < k THEN j ELSE j + 1
  <2>1. ii \in 1..n /\ jj \in 1..n /\ v[i] = w[ii] /\ v[j] = w[jj]
    BY <1>1, <1>3
  <2>2. ii = jj
    BY <1>2, <1>5, <2>1
  <2> QED
    BY <1>1, <2>2
<1>6. allocated' = {v[i] : i \in 1..m}
  <2>1. allocated' = {w[i] : i \in 1..n} \ {w[k]}
    BY DEF IsList
  <2>2. ASSUME NEW i \in 1..n, i # k
        PROVE  \E j \in 1..m : v[j] = w[i]
    <3>1. CASE i < k
      <4>1. i \in 1..m
        BY <1>1, <3>1
      <4> QED
        BY <1>3, <3>1, <4>1
    <3>2. CASE ~(i < k)
      <4>1. i - 1 \in 1..m /\ ~(i - 1 < k) /\ (i - 1) + 1 = i
        BY <1>1, <2>2, <3>2
      <4> QED
        BY <1>3, <4>1
    <3> QED
      BY <3>1, <3>2
  <2>3. ASSUME NEW j \in 1..m
        PROVE  \E i \in 1..n : i # k /\ v[j] = w[i]
    <3>1. CASE j < k
      BY <1>1, <1>3, <3>1
    <3>2. CASE ~(j < k)
      <4>1. j + 1 \in 1..n /\ j + 1 # k
        BY <1>1, <3>2
      <4> QED
        BY <1>3, <3>2, <4>1
    <3> QED
      BY <3>1, <3>2
  <2> QED
    BY <1>2, <2>1, <2>2, <2>3
<1>7. /\ head = w[1] /\ prev[w[1]] = NULL /\ tail = w[n] /\ next[w[n]] = NULL
      /\ \A i \in 1..n : i # 1 => next[w[i-1]] = w[i] /\ prev[w[i]] = w[i-1]
  BY <1>1 DEF IsList, Linked
<1>8. \A i \in 1..n : i + 1 \in 1..n =>
          next[w[i]] = w[i+1] /\ prev[w[i+1]] = w[i]
  <2> TAKE i \in 1..n
  <2> HAVE i + 1 \in 1..n
  <2>1. i + 1 # 1 /\ (i + 1) - 1 = i
    BY <1>1
  <2> QED
    BY <1>7, <2>1
<1> SUFFICES /\ next' \in [Cells -> Cells \cup {NULL}]
             /\ prev' \in [Cells -> Cells \cup {NULL}]
             /\ Linked(v, m, head', tail', next', prev')
  <2>1. PICK u : u = v
    OBVIOUS
  <2>2. capacity' = m
    OBVIOUS
  <2>3. ListInv' /\ IsList(u)'
    BY <1>6, <2>1, <2>2, ListAgain
  <2>4. Without(u, w, capacity, k)
    BY <1>3, <2>1 DEF Without
  <2> QED
    BY <2>3, <2>4
<1>9. /\ next \in [Cells -> Cells \cup {NULL}]
      /\ prev \in [Cells -> Cells \cup {NULL}]
  BY DEF ListInv
<1>10. CASE k = 1
  <2>1. \A i \in 1..m : v[i] = w[i+1]
    BY <1>1, <1>3, <1>10
  <2>2. /\ head' = next[w[1]] /\ next' = next /\ tail' = tail
        /\ prev' = IF next[w[1]] = NULL THEN prev
                   ELSE [prev EXCEPT ![next[w[1]]] = NULL]
    BY <1>7, <1>10 DEF Unlink
  <2>3. CASE m = 0
    <3>1. head' = NULL /\ prev' = prev
      BY <1>1, <1>7, <2>2, <2>3
    <3>2. \A i \in 1..m : FALSE
      BY <1>1, <2>3
    <3> QED
      BY <1>1, <1>4, <1>9, <2>2, <2>3, <3>1, <3>2 DEF Linked
  <2>4. CASE m # 0
    <3>1. /\ 2 \in 1..n /\ 1 + 1 = 2 /\ m + 1 = n /\ v[1] = w[2] /\ v[m] = w[n]
      BY <1>1, <2>1, <2>4
    <3>2. next[w[1]] = w[2]
      BY <1>1, <1>8, <3>1
    <3>3. head' = v[1] /\ prev' = [prev EXCEPT ![w[2]] = NULL]
      BY <1>2, <2>2, <3>1, <3>2
    <3>4. /\ prev' \in [Cells -> Cells \cup {NULL}] /\ prev'[w[2]] = NULL
          /\ \A c \in Cells : c # w[2] => prev'[c] = prev[c]
      BY <1>2, <1>9, <3>1, <3>3
    <3>5. ASSUME NEW i \in 1..m, i # 1
          PROVE  next'[v[i-1]] = v[i] /\ prev'[v[i]] = v[i-1]
      <4>1. /\ i - 1 \in 1..m /\ (i - 1) + 1 = i
            /\ i \in 1..n /\ i + 1 \in 1..n
            /\ i + 1 # 2
        BY <1>1, <3>5
      <4>2. v[i-1] = w[i] /\ v[i] = w[i+1] /\ w[i+1] # w[2] /\ w[i+1] \in Cells
        BY <1>2, <2>1, <3>1, <4>1
      <4> QED
        BY <1>8, <2>2, <3>4, <4>1, <4>2
    <3>6. \A i, j \in 1..m : v[i] = v[j] => i = j
      BY <1>5
    <3>7. prev'[head'] = NULL /\ tail' = v[m] /\ next'[tail'] = NULL
      BY <1>7, <2>2, <3>1, <3>3, <3>4
    <3> QED
      BY <1>1, <1>4, <2>4, <3>3, <3>5, <3>6, <3>7, <1>9, <2>2, <3>4 DEF Linked
  <2> QED
    BY <2>3, <2>4
<1>11. CASE k # 1 /\ k = n
  <2>1. /\ m # 0 /\ m + 1 = n /\ m \in 1..n /\ 1 \in 1..m /\ m \in 1..m
    BY <1>1, <1>11
  <2>2. \A i \in 1..m : v[i] = w[i]
    BY <1>1, <1>3, <1>11
  <2>3. prev[w[n]] = w[m] /\ w[m] # NULL /\ w[m] \in Cells /\ w[n] # w[1]
    BY <1>1, <1>2, <1>8, <1>11, <2>1
  <2>4. /\ tail' = w[m] /\ prev' = prev /\ head' = head
        /\ next' = [next EXCEPT ![w[m]] = NULL]
    BY <1>7, <1>11, <2>3 DEF Unlink
  <2>5. /\ next' \in [Cells -> Cells \cup {NULL}] /\ next'[w[m]] = NULL
        /\ \A c \in Cells : c # w[m] => next'[c] = next[c]
    BY <1>9, <2>3, <2>4
  <2>6. ASSUME NEW i \in 1..m, i # 1
        PROVE  next'[v[i-1]] = v[i] /\ prev'[v[i]] = v[i-1]
    <3>1. i - 1 \in 1..m /\ i - 1 \in 1..n /\ i \in 1..n /\ i - 1 # m
      BY <1>1, <2>6
    <3>2. v[i-1] = w[i-1] /\ v[i] = w[i] /\ w[i-1] # w[m] /\ w[i-1] \in Cells
      BY <1>2, <2>1, <2>2, <3>1
    <3> QED
      BY <1>7, <2>4, <2>5, <2>6, <3>1, <3>2
  <2> QED
    BY <1>1, <1>4, <1>5, <1>7, <1>9, <2>1, <2>2, <2>4, <2>5, <2>6 DEF Linked
<1>12. CASE k # 1 /\ k # n
  <2>1. /\ k - 1 \in 1..n /\ k + 1 \in 1..n /\ (k - 1) + 1 = k
        /\ m # 0 /\ m + 1 = n /\ 1 < k /\ ~(m < k)
    BY <1>1, <1>12
  <2>2. prev[w[k]] = w[k-1] /\ next[w[k]] = w[k+1]
    BY <1>8, <2>1
  <2>3. w[k] # head /\ w[k] # tail
    BY <1>1, <1>2, <1>7, <1>12
  <2>4. /\ head' = head /\ tail' = tail
        /\ prev' = [prev EXCEPT ![w[k+1]] = w[k-1]]
        /\ next' = [next EXCEPT ![w[k-1]] = w[k+1]]
    BY <2>2, <2>3 DEF Unlink
  <2>5. w[k-1] \in Cells /\ w[k+1] \in Cells
    BY <1>2, <2>1
  <2>6. /\ next' \in [Cells -> Cells \cup {NULL}]
        /\ prev' \in [Cells -> Cells \cup {NULL}]
        /\ next'[w[k-1]] = w[k+1] /\ prev'[w[k+1]] = w[k-1]
        /\ \A c \in Cells : c # w[k-1] => next'[c] = next[c]
        /\ \A c \in Cells : c # w[k+1] => prev'[c] = prev[c]
    BY <1>9, <2>4, <2>5
  <2>7. v[1] = w[1] /\ v[m] = w[n] /\ w[1] # w[k+1] /\ w[n] # w[k-1]
    <3>1. 1 \in 1..m /\ m \in 1..m /\ 1 # k + 1 /\ n # k - 1
      BY <1>1, <2>1
    <3> QED
      BY <1>1, <1>2, <1>3, <2>1, <3>1
  <2>8. ASSUME NEW i \in 1..m, i # 1
        PROVE  next'[v[i-1]] = v[i] /\ prev'[v[i]] = v[i-1]
    <3>1. i - 1 \in 1..m /\ i - 1 \in 1..n /\ i \in 1..n /\ i + 1 \in 1..n
          /\ (i - 1) + 1 = i
      BY <1>1, <2>8
    <3>2. CASE i < k
      <4>1. i - 1 < k /\ i - 1 # k - 1 /\ i # k + 1
        BY <1>1, <3>2
      <4>2. /\ v[i-1] = w[i-1] /\ v[i] = w[i]
            /\ w[i-1] # w[k-1] /\ w[i] # w[k+1]
            /\ w[i-1] \in Cells /\ w[i] \in Cells
        BY <1>2, <1>3, <2>1, <3>1, <3>2, <4>1
      <4> QED
        BY <1>7, <2>6, <2>8, <3>1, <4>2
    <3>3. CASE i = k
      <4>1. i - 1 < k /\ ~(i < k)
        BY <1>1, <3>3
      <4>2. v[i-1] = w[k-1] /\ v[i] = w[k+1]
        BY <1>3, <3>1, <3>3, <4>1
      <4> QED
        BY <2>6, <4>2
    <3>4. CASE i > k
      <4>1. ~(i - 1 < k) /\ ~(i < k) /\ i # k - 1 /\ i + 1 # k + 1
        BY <1>1, <3>4
      <4>2. /\ v[i-1] = w[i] /\ v[i] = w[i+1]
            /\ w[i] # w[k-1] /\ w[i+1] # w[k+1]
            /\ w[i] \in Cells /\ w[i+1] \in Cells
        BY <1>2, <1>3, <2>1, <3>1, <4>1
      <4> QED
        BY <1>8, <2>6, <3>1, <4>2
    <3> QED
      BY <1>1, <3>2, <3>3, <3>4
  <2> QED
    BY <1>1, <1>2, <1>4, <1>5, <1>7, <2>1, <2>4, <2>5, <2>6, <2>7, <2>8
    DEF Linked
<1> QED
  BY <1>10, <1>11, <1>12

(* The cell that is found goes, the first of its name, or none.            *)
LEMMA ListRemoves ==
    ASSUME ListInv, NEW name, CellRemove(name)
    PROVE  ListInv'
<1> PICK w : IsList(w)
  BY DEF ListInv
<1>1. CASE CellSearch(name) = NULL
  BY <1>1 DEF CellRemove, ListInv, IsList
<1>2. CASE CellSearch(name) # NULL
  <2>1. PICK k \in 1..capacity : CellSearch(name) = w[k]
    BY <1>2, ListFound
  <2>2. /\ Unlink(w[k]) /\ capacity' = capacity - 1
        /\ allocated' = allocated \ {w[k]}
    BY <1>2, <2>1 DEF CellRemove
  <2> QED
    BY <2>2, ListUnlinks
<1> QED
  BY <1>1, <1>2

(* All cells are freed at the end, however long the list is.               *)
LEMMA ListEnds == ListInv /\ DirFree => ListInv'
<1> SUFFICES ASSUME ListInv, DirFree PROVE ListInv'
  OBVIOUS
<1> PICK w : IsList(w)
  BY DEF ListInv
<1> DEFINE v == [i \in 1..0 |-> NULL]
<1>1. allocated' = {}
  <2>1. Walk(capacity) = w
    BY ListWalked
  <2> QED
    BY <2>1 DEF DirFree, IsList
<1>2. 1..0 = {}
  OBVIOUS
<1>3. /\ Linked(v, 0, head', tail', next', prev')
      /\ allocated' = {v[i] : i \in 1..0}
  BY <1>1, <1>2 DEF Linked, DirFree
<1> HIDE DEF v
<1> QED
  BY <1>3 DEF ListInv, IsList, DirFree

(* At first the list has no cells (dir_init).                              *)
LEMMA ListInvInit == Init => ListInv
<1> SUFFICES ASSUME Init PROVE ListInv
  OBVIOUS
<1> DEFINE v == [i \in 1..0 |-> NULL]
<1>1. 1..0 = {}
  OBVIOUS
<1>2. Linked(v, 0, head, tail, next, prev) /\ allocated = {v[i] : i \in 1..0}
  BY <1>1 DEF Linked, Init, ListInit
<1> HIDE DEF v
<1> QED
  BY <1>2 DEF ListInv, IsList, Init, ListInit

(* Every step of either program keeps the list.                            *)
LEMMA ListInvStep == ListInv /\ [Next]_vars => ListInv'
<1> SUFFICES ASSUME ListInv, [Next]_vars PROVE ListInv'
  OBVIOUS
<1>1. CASE UNCHANGED <<head, tail, capacity, allocated, next, prev>>
  BY <1>1 DEF ListInv, IsList
<1>2. ASSUME NEW abonent \in Abonent, NEW cell \in Cells,
             CellAdd(abonent, cell)
      PROVE  ListInv'
  BY <1>2, ListAdds DEF ListInv
<1>3. ASSUME NEW name \in Names, CellRemove(name)
      PROVE  ListInv'
  BY <1>3, ListRemoves
<1>4. CASE DirFree
  BY <1>4, ListEnds
<1> QED
  BY <1>1, <1>2, <1>3, <1>4
  DEF Next, vars, ListNext, ListSearch, ListShow, listVars

(* No cell is lost, none linked in twice, none that was freed, whatever is *)
(* added and removed in which order and whatever addresses malloc gives.   *)
THEOREM WellLinkedAlways == Spec => []WellLinked
  BY ListInvInit, ListInvStep, ListLinked, PTL DEF Spec
-----------------------------------------------------------------------------
(* The array implements Directory.  First, sequences.                      *)

(* A function on 1..n is a sequence of length n.                           *)
LEMMA SeqOf ==
    ASSUME NEW S, NEW n \in Nat, NEW s \in [1..n -> S]
    PROVE  s \in Seq(S) /\ Len(s) = n /\ DOMAIN s = 1..n
<1>1. s \in Seq(S)
  BY SeqDef
<1>2. DOMAIN s = 1..n /\ DOMAIN s = 1..Len(s) /\ Len(s) \in Nat
  BY <1>1, LenProperties
<1> QED
  BY <1>1, <1>2

(* One more at the end.                                                    *)
LEMMA Appended ==
    ASSUME NEW S, NEW n \in Nat, NEW s \in [1..n -> S], NEW e \in S,
           NEW t \in [1..(n+1) -> S], t[n+1] = e, \A i \in 1..n : t[i] = s[i]
    PROVE  t = Append(s, e)
<1>1. s \in Seq(S) /\ Len(s) = n
  BY SeqOf
<1>2. n + 1 \in Nat /\ t \in Seq(S) /\ Len(t) = n + 1
  BY SeqOf
<1>3. /\ Append(s, e) \in Seq(S) /\ Len(Append(s, e)) = n + 1
      /\ \A i \in 1..n : Append(s, e)[i] = s[i]
      /\ Append(s, e)[n+1] = e
  BY <1>1, AppendProperties
<1>4. \A i \in 1..Len(t) : t[i] = Append(s, e)[i]
  <2> TAKE i \in 1..Len(t)
  <2>1. i = n + 1 \/ i \in 1..n
    BY <1>2
  <2> QED
    BY <1>3, <2>1
<1> QED
  BY <1>2, <1>3, <1>4, SeqEqual

(* One fewer at k.                                                         *)
LEMMA Removed ==
    ASSUME NEW S, NEW n \in Nat, NEW s \in [1..n -> S], NEW k \in 1..n,
           NEW t \in [1..(n-1) -> S], Without(t, s, n, k)
    PROVE  t = Promise!Seqs!RemoveAt(s, k)
<1> USE DEF Without
<1> DEFINE left == SubSeq(s, 1, k-1)
           right == SubSeq(s, k+1, n)
<1>1. s \in Seq(S) /\ Len(s) = n /\ \A i \in 1..n : s[i] \in S
  BY SeqOf
<1>2. n - 1 \in Nat /\ t \in Seq(S) /\ Len(t) = n - 1
  BY SeqOf
<1>3. /\ left \in Seq(S) /\ Len(left) = k - 1
      /\ \A i \in 1..(k-1) : left[i] = s[i]
  <2>1. 1 \in Int /\ k-1 \in Int /\ \A i \in 1..(k-1) : s[i] \in S
    BY <1>1
  <2> QED
    BY <2>1, SubSeqProperties
<1>4. /\ right \in Seq(S) /\ Len(right) = n - k
      /\ \A i \in 1..(n-k) : right[i] = s[k+i]
  <2>1. k+1 \in Int /\ n \in Int /\ \A i \in (k+1)..n : s[i] \in S
    BY <1>1
  <2> QED
    BY <2>1, SubSeqProperties
<1>5. Promise!Seqs!RemoveAt(s, k) = left \o right
  BY <1>1 DEF Promise!Seqs!RemoveAt
<1> HIDE DEF left, right
<1>6. /\ left \o right \in Seq(S) /\ Len(left \o right) = n - 1
      /\ \A i \in 1..(n-1) : (left \o right)[i] =
            IF i <= k - 1 THEN left[i] ELSE right[i - (k - 1)]
  <2>1. /\ left \o right \in Seq(S)
        /\ Len(left \o right) = Len(left) + Len(right)
        /\ \A i \in 1..(Len(left) + Len(right)) : (left \o right)[i] =
             IF i <= Len(left) THEN left[i] ELSE right[i - Len(left)]
    BY <1>3, <1>4, ConcatProperties
  <2>2. Len(left) = k - 1 /\ Len(left) + Len(right) = n - 1
    BY <1>3, <1>4
  <2> QED
    BY <2>1, <2>2
<1>7. \A i \in 1..(n-1) : t[i] = (left \o right)[i]
  <2> TAKE i \in 1..(n-1)
  <2>1. CASE i < k
    <3>1. i <= k - 1 /\ i \in 1..(k-1)
      BY <2>1
    <3> QED
      BY <1>3, <1>6, <2>1, <3>1
  <2>2. CASE ~(i < k)
    <3>1. /\ ~(i <= k - 1) /\ i - (k - 1) \in 1..(n-k)
          /\ k + (i - (k - 1)) = i + 1
      BY <2>2
    <3> QED
      BY <1>4, <1>6, <2>2, <3>1
  <2> QED
    BY <2>1, <2>2
<1> QED
  BY <1>2, <1>5, <1>6, <1>7, SeqEqual

(* What is in use are subscribers.                                         *)
FilledInv == ArrayInv /\ \A i \in Indices : i < used => directory[i] \in Abonent

(* What the array stands for, as a sequence.                               *)
LEMMA InUseIs ==
    ASSUME FilledInv
    PROVE  /\ used \in Nat /\ used <= Capacity /\ Capacity \in Nat
           /\ InUse \in [1..used -> Abonent]
           /\ \A i \in 1..used : InUse[i] = directory[i-1]
           /\ \A i \in 1..used : i - 1 \in Indices /\ i - 1 < used
           /\ Len(InUse) = used
<1>1. used \in Nat /\ used <= Capacity /\ Capacity \in Nat
  BY SubscribersAssumption DEF FilledInv, ArrayInv
<1>2. \A i \in 1..used : i - 1 \in Indices /\ i - 1 < used
  BY <1>1 DEF Indices
<1>3. /\ InUse \in [1..used -> Abonent]
      /\ \A i \in 1..used : InUse[i] = directory[i-1]
  BY <1>2 DEF InUse, FilledInv
<1> QED
  BY <1>1, <1>2, <1>3, SeqOf

(* Only subscribers are written there (directory_add, directory_remove).   *)
LEMMA FilledStep == FilledInv /\ [Next]_vars => FilledInv'
<1> SUFFICES ASSUME FilledInv, [Next]_vars PROVE FilledInv'
  OBVIOUS
<1>0. ArrayInv'
  BY ArrayInvStep DEF FilledInv
<1> DEFINE Filled == \A i \in Indices : i < used => directory[i] \in Abonent
<1>1. CASE UNCHANGED <<directory, used>>
  BY <1>0, <1>1 DEF FilledInv, Indices
<1>2. ASSUME NEW abonent \in Abonent, ArrayAdd(abonent)
      PROVE  FilledInv'
  <2>1. \A i \in Indices : i < used' => directory'[i] \in Abonent
    BY <1>2, SubscribersAssumption DEF FilledInv, ArrayInv, ArrayAdd, Indices
  <2> QED
    BY <1>0, <2>1 DEF FilledInv, Indices
<1>3. ASSUME NEW name \in Names, ArrayRemove(name)
      PROVE  FilledInv'
  <2>1. CASE FindIndex(name, 0) < 0
    BY <1>0, <1>3, <2>1 DEF FilledInv, ArrayRemove, Indices
  <2>2. CASE ~(FindIndex(name, 0) < 0)
    <3> DEFINE index == FindIndex(name, 0)
    <3> HIDE DEF index
    <3>1. /\ used' = used - 1
          /\ directory' = [i \in Indices |->
                              IF i >= index /\ i < used - 1
                              THEN directory[i + 1]
                              ELSE IF i = used - 1 THEN Cleared
                              ELSE directory[i]]
      BY <1>3, <2>2 DEF ArrayRemove, index
    <3>2. \A i \in Indices : i < used' => directory'[i] \in Abonent
      BY <3>1, SubscribersAssumption DEF FilledInv, ArrayInv, Indices
    <3> QED
      BY <1>0, <3>2 DEF FilledInv, Indices
  <2> QED
    BY <2>1, <2>2
<1>4. CASE ArrayEnd
  BY <1>0, <1>4, SubscribersAssumption DEF ArrayEnd, FilledInv, Indices
<1> QED
  BY <1>1, <1>2, <1>3, <1>4
  DEF Next, vars, ArrayNext, ArraySearch, ArrayShow, arrayVars

(* The new one is the last.                                                *)
LEMMA ArrayAddPromise ==
    ASSUME FilledInv, FilledInv', NEW abonent \in Abonent, ArrayAdd(abonent)
    PROVE  InUse' = Append(InUse, abonent) /\ Len(InUse) < Capacity
<1>1. /\ used' = used + 1 /\ used < Capacity
      /\ directory' = [directory EXCEPT ![used] = abonent]
  BY DEF ArrayAdd
<1>2. /\ used \in Nat /\ Capacity \in Nat
      /\ InUse \in [1..used -> Abonent] /\ Len(InUse) = used
      /\ \A i \in 1..used : InUse[i] = directory[i-1]
      /\ \A i \in 1..used : i - 1 \in Indices
  BY InUseIs
<1>3. /\ InUse' \in [1..(used+1) -> Abonent]
      /\ \A i \in 1..(used+1) : InUse'[i] = directory'[i-1]
  <2>1. InUse' = [i \in 1..used' |-> directory'[i-1]]
    BY DEF InUse
  <2>2. \A i \in 1..used' : i - 1 \in Indices /\ i - 1 < used'
    BY <1>1, <1>2 DEF Indices
  <2>3. \A i \in Indices : i < used' => directory'[i] \in Abonent
    BY DEF FilledInv, Indices
  <2> QED
    BY <1>1, <2>1, <2>2, <2>3
<1>4. InUse'[used+1] = abonent
  BY <1>1, <1>2, <1>3 DEF FilledInv, ArrayInv, Indices
<1>5. \A i \in 1..used : InUse'[i] = InUse[i]
  <2> TAKE i \in 1..used
  <2>1. i \in 1..(used+1) /\ i - 1 # used /\ i - 1 \in DOMAIN directory
    BY <1>2 DEF FilledInv, ArrayInv
  <2> QED
    BY <1>1, <1>2, <1>3, <2>1
<1> QED
  BY <1>1, <1>2, <1>3, <1>4, <1>5, Appended

(* The first of the name is left out, or there is none.                    *)
LEMMA ArrayRemovePromise ==
    ASSUME FilledInv, FilledInv', NEW name \in Names, ArrayRemove(name)
    PROVE  \/ \E i \in DOMAIN InUse :
                /\ InUse[i].name = name
                /\ \A j \in 1..(i-1) : InUse[j].name # name
                /\ InUse' = Promise!Seqs!RemoveAt(InUse, i)
           \/ /\ \A i \in DOMAIN InUse : InUse[i].name # name
              /\ InUse' = InUse
<1> DEFINE index == FindIndex(name, 0)
<1>1. /\ used \in Nat /\ Capacity \in Nat /\ used <= Capacity
      /\ InUse \in [1..used -> Abonent] /\ Len(InUse) = used
      /\ DOMAIN InUse = 1..used
      /\ \A i \in 1..used : InUse[i] = directory[i-1]
      /\ \A i \in 1..used : i - 1 \in Indices
  BY InUseIs
<1>2. CASE index = -1
  <2>1. \A i \in 1..used : InUse[i].name # name
    <3> TAKE i \in 1..used
    <3>1. i - 1 \in Indices /\ i - 1 >= 0
      BY <1>1
    <3>2. directory[i-1].name # name
      BY <1>2, <3>1, FoundNone
    <3> QED
      BY <1>1, <3>2
  <2>2. UNCHANGED <<directory, used>>
    BY <1>2 DEF ArrayRemove
  <2> QED
    BY <1>1, <2>1, <2>2 DEF InUse
<1>3. CASE index # -1
  <2>1. index \in 0..(used-1) /\ ~(index < 0)
    BY <1>1, <1>3, FoundInUse DEF FilledInv
  <2>2. /\ directory[index].name = name
        /\ \A j \in Indices : directory[j].name = name => index <= j
    <3>1. \A j \in Indices : j >= 0
      BY <1>1 DEF Indices
    <3> QED
      BY <1>3, <3>1, FoundFirst
  <2>3. /\ used' = used - 1
        /\ directory' = [i \in Indices |->
                            IF i >= index /\ i < used - 1
                            THEN directory[i + 1]
                            ELSE IF i = used - 1 THEN Cleared
                            ELSE directory[i]]
    BY <2>1 DEF ArrayRemove
  <2> DEFINE k == index + 1
  <2>4. k \in 1..used /\ k - 1 = index
    BY <1>1, <2>1
  <2>5. InUse[k].name = name
    BY <1>1, <2>2, <2>4
  <2>6. \A j \in 1..(k-1) : InUse[j].name # name
    <3> TAKE j \in 1..(k-1)
    <3>1. j \in 1..used /\ j - 1 \in Indices /\ ~(index <= j - 1)
      BY <1>1, <2>1, <2>4
    <3> QED
      BY <1>1, <2>2, <3>1
  <2> HIDE DEF index, k
  <2>7. /\ InUse' \in [1..(used-1) -> Abonent]
        /\ \A i \in 1..(used-1) : InUse'[i] = directory'[i-1]
    <3>1. InUse' = [i \in 1..used' |-> directory'[i-1]]
      BY DEF InUse
    <3>2. \A i \in 1..used' : i - 1 \in Indices /\ i - 1 < used'
      BY <1>1, <2>3 DEF Indices
    <3>3. \A i \in Indices : i < used' => directory'[i] \in Abonent
      BY DEF FilledInv, Indices
    <3> QED
      BY <2>3, <3>1, <3>2, <3>3
  <2>8. \A i \in 1..(used-1) :
           InUse'[i] = IF i < k THEN InUse[i] ELSE InUse[i+1]
    <3> TAKE i \in 1..(used-1)
    <3>1. /\ i - 1 \in Indices /\ i - 1 < used - 1 /\ (i - 1) + 1 = (i + 1) - 1
          /\ i \in 1..used /\ i + 1 \in 1..used
          /\ i < k <=> ~(i - 1 >= index)
      BY <1>1, <2>1, <2>4 DEF Indices
    <3>2. directory'[i-1] = IF i - 1 >= index THEN directory[(i-1)+1]
                            ELSE directory[i-1]
      BY <1>1, <2>3, <3>1
    <3>3. InUse'[i] = directory'[i-1]
      BY <2>7
    <3>4. InUse[i] = directory[i-1] /\ InUse[i+1] = directory[(i-1)+1]
      BY <1>1, <3>1
    <3>5. CASE i < k
      BY <3>1, <3>2, <3>3, <3>4, <3>5
    <3>6. CASE ~(i < k)
      BY <3>1, <3>2, <3>3, <3>4, <3>6
    <3> QED
      BY <3>5, <3>6
  <2>9. InUse' = Promise!Seqs!RemoveAt(InUse, k)
    <3>1. used \in Nat /\ InUse \in [1..used -> Abonent] /\ k \in 1..used
      BY <1>1, <2>4
    <3>2. Without(InUse', InUse, used, k)
      BY <2>8 DEF Without
    <3> QED
      BY <2>7, <3>1, <3>2, Removed
  <2>10. k \in DOMAIN InUse
    BY <1>1, <2>4
  <2> QED
    BY <2>5, <2>6, <2>9, <2>10, Zenon
<1> QED
  BY <1>2, <1>3

(* A function that looks only ahead of where it is asked has a solution.   *)
Ahead(J, C) == \A i \in 0..C : J[i] < 0 \/ J[i] \in i..(C-1)

Chained(f, J, d, C) ==
    f = [i \in 0..C |-> IF J[i] < 0 THEN <<>> ELSE <<d[J[i]]>> \o f[J[i]+1]]

LEMMA AheadExists ==
    ASSUME NEW C \in Nat, NEW J, NEW d, Ahead(J, C)
    PROVE  \E f : Chained(f, J, d, C)
<1> USE DEF Ahead
<1> DEFINE G(f, i) == IF J[i] < 0 THEN <<>> ELSE <<d[J[i]]>> \o f[J[i]+1]
           Solved(m) == \E f : /\ f = [i \in 0..C |-> f[i]]
                               /\ \A i \in 0..C : i >= C - m => f[i] = G(f, i)
           Open == {m \in 0..C : ~Solved(m)}
<1>1. Solved(0)
  <2> DEFINE f == [i \in 0..C |-> <<>>]
  <2>1. \A i \in 0..C : i >= C - 0 => f[i] = G(f, i)
    <3> SUFFICES ASSUME NEW i \in 0..C, i >= C - 0 PROVE J[i] < 0
      OBVIOUS
    <3>1. ~(J[i] \in i..(C-1))
      OBVIOUS
    <3> QED
      BY <3>1
  <2>2. f = [i \in 0..C |-> f[i]]
    OBVIOUS
  <2> HIDE DEF f, G
  <2> QED
    BY <2>1, <2>2
<1>2. ASSUME NEW m \in Nat, m + 1 \in 0..C, Solved(m)
      PROVE  Solved(m+1)
  <2> PICK f : /\ f = [i \in 0..C |-> f[i]]
               /\ \A i \in 0..C : i >= C - m => f[i] = G(f, i)
    BY <1>2
  <2> DEFINE k == C - m - 1
             g == [i \in 0..C |-> IF i = k THEN G(f, k) ELSE f[i]]
  <2>1. k \in 0..C /\ \A i \in 0..C : i >= C - (m+1) => i = k \/ i >= C - m
    BY <1>2
  <2>2. \A i \in 0..C : i >= C - (m+1) => i >= k
    BY <1>2
  <2>3. \A i \in 0..C : g[i] = IF i = k THEN G(f, k) ELSE f[i]
    OBVIOUS
  <2>4. g = [i \in 0..C |-> g[i]]
    OBVIOUS
  <2> HIDE DEF g, k
  <2>5. ASSUME NEW i \in 0..C, i >= C - (m+1)
        PROVE  G(g, i) = G(f, i)
    <3>1. CASE J[i] < 0
      BY <3>1
    <3>2. CASE ~(J[i] < 0)
      <4>1. J[i] \in i..(C-1)
        BY <3>2
      <4>2. J[i] + 1 \in 0..C /\ J[i] + 1 # k
        <5>1. k \in Int /\ i >= k
          BY <2>1, <2>2, <2>5
        <5> QED
          BY <4>1, <5>1
      <4> HIDE DEF G
      <4>3. g[J[i]+1] = f[J[i]+1]
        BY <2>3, <4>2
      <4>4. G(g, i) = <<d[J[i]]>> \o g[J[i]+1]
        BY <3>2 DEF G
      <4>5. G(f, i) = <<d[J[i]]>> \o f[J[i]+1]
        BY <3>2 DEF G
      <4> QED
        BY <4>3, <4>4, <4>5
    <3> QED
      BY <3>1, <3>2
  <2> HIDE DEF G
  <2>6. \A i \in 0..C : i >= C - (m+1) => g[i] = G(g, i)
    BY <2>1, <2>3, <2>5
  <2> QED
    BY <2>4, <2>6
<1>3. Open = {}
  <2> SUFFICES ASSUME Open # {} PROVE FALSE
    OBVIOUS
  <2> HIDE DEF Solved
  <2>1. Open \in SUBSET Nat
    OBVIOUS
  <2>2. PICK m \in Open : \A j \in Open : m <= j
    BY <2>1, LeastOf
  <2>3. m \in 0..C /\ ~Solved(m) /\ m # 0
    BY <1>1
  <2>4. m - 1 \in Nat /\ (m - 1) + 1 = m /\ m - 1 \in 0..C /\ ~(m <= m - 1)
    BY <2>3
  <2>5. Solved(m - 1)
    BY <2>2, <2>4
  <2> QED
    BY <1>2, <2>3, <2>4, <2>5
<1>4. Solved(C)
  <2>1. C \in 0..C
    OBVIOUS
  <2> HIDE DEF Solved
  <2> QED
    BY <1>3, <2>1
<1>5. PICK f : /\ f = [i \in 0..C |-> f[i]]
               /\ \A i \in 0..C : i >= C - C => f[i] = G(f, i)
  BY <1>4
<1>6. \A i \in 0..C : f[i] = G(f, i)
  <2>1. \A i \in 0..C : i >= C - C
    OBVIOUS
  <2> HIDE DEF G
  <2> QED
    BY <1>5, <2>1
<1>7. f = [i \in 0..C |-> G(f, i)]
  BY <1>5, <1>6
<1>8. Chained(f, J, d, C)
  BY <1>7 DEF Chained
<1> QED
  BY <1>8

(* One in front.                                                           *)
Behind(t, s, n) == \A i \in 1..n : t[i+1] = s[i]

LEMMA Prefixed ==
    ASSUME NEW S, NEW n \in Nat, NEW s \in [1..n -> S], NEW e \in S,
           NEW t \in [1..(n+1) -> S], t[1] = e, Behind(t, s, n)
    PROVE  <<e>> \o s = t
<1>1. s \in Seq(S) /\ Len(s) = n
  BY SeqOf
<1>2. n + 1 \in Nat /\ t \in Seq(S) /\ Len(t) = n + 1
  BY SeqOf
<1>3. <<e>> \in Seq(S) /\ Len(<<e>>) = 1 /\ <<e>>[1] = e
  OBVIOUS
<1>4. /\ <<e>> \o s \in Seq(S) /\ Len(<<e>> \o s) = 1 + n
      /\ \A i \in 1..(1 + n) :
            (<<e>> \o s)[i] = IF i <= 1 THEN <<e>>[1] ELSE s[i - 1]
  <2>1. /\ <<e>> \o s \in Seq(S) /\ Len(<<e>> \o s) = Len(<<e>>) + Len(s)
        /\ \A i \in 1..(Len(<<e>>) + Len(s)) : (<<e>> \o s)[i] =
             IF i <= Len(<<e>>) THEN <<e>>[i] ELSE s[i - Len(<<e>>)]
    BY <1>1, <1>3, ConcatProperties
  <2> QED
    BY <1>1, <1>3, <2>1
<1>5. \A i \in 1..Len(t) : t[i] = (<<e>> \o s)[i]
  <2> TAKE i \in 1..Len(t)
  <2>1. CASE i = 1
    BY <1>2, <1>3, <1>4, <2>1
  <2>2. CASE i # 1
    <3>1. i - 1 \in 1..n /\ (i - 1) + 1 = i /\ ~(i <= 1) /\ i \in 1..(1 + n)
      BY <1>2, <2>2
    <3>2. t[i] = s[i-1]
      BY <3>1 DEF Behind
    <3> QED
      BY <1>4, <3>1, <3>2
  <2> QED
    BY <2>1, <2>2
<1> QED
  BY <1>2, <1>4, <1>5, SeqEqual

(* Those of the name from index i on, and the first n of them in order.    *)
Matches(name, i) == {x \in Indices : x >= i /\ directory[x].name = name}

(* Exactly those at the places before k are in front of the k-th.          *)
InTurn(at, n, matches) ==
    \A k \in 1..n : \A x \in matches :
        x < at[k] <=> \E j \in 1..(k-1) : x = at[j]

(* The first n matches, and none only if there is none.                    *)
Lists(at, n, name, i) ==
    /\ n \in Nat /\ at \in [1..n -> Matches(name, i)]
    /\ n = 0 => Matches(name, i) = {}
    /\ \A k \in 1..n : at[k] >= i + k - 1
    /\ InTurn(at, n, Matches(name, i))

Entries(at, n) == [k \in 1..n |-> directory[at[k]]]

(* The text is of these.                                                   *)
Shows(text, name, i) ==
    \E h, o : Lists(o, h, name, i) /\ text = Entries(o, h)

(* The hit at i, and then those behind it.                                 *)
LEMMA ShowsOneMore ==
    ASSUME NEW name, NEW i \in Nat, FindIndex(name, i) # -1,
           NEW text, Shows(text, name, FindIndex(name, i) + 1)
    PROVE  Shows(<<directory[FindIndex(name, i)]>> \o text, name, i)
<1> DEFINE f == FindIndex(name, i)
<1>1. /\ f \in Indices /\ f \in Nat /\ f >= i /\ directory[f].name = name
      /\ \A x \in Indices : x >= i /\ directory[x].name = name => f <= x
  BY FoundFirst, SubscribersAssumption DEF Indices
<1>2. PICK n, at : /\ Lists(at, n, name, f + 1)
                   /\ text = [k \in 1..n |-> directory[at[k]]]
  BY DEF Shows, Entries
<1> DEFINE to == [k \in 1..(n+1) |-> IF k = 1 THEN f ELSE at[k-1]]
<1> HIDE DEF f
<1>3. /\ n \in Nat /\ at \in [1..n -> Matches(name, f + 1)]
      /\ \A k \in 1..n : at[k] >= (f + 1) + k - 1
      /\ InTurn(at, n, Matches(name, f + 1))
      /\ \A k \in 1..n : at[k] \in Nat
  <2>1. \A x \in Matches(name, f + 1) : x \in Nat
    BY SubscribersAssumption DEF Matches, Indices
  <2> QED
    BY <1>2, <2>1 DEF Lists
<1>4. /\ f \in Matches(name, i)
      /\ \A x : x \in Matches(name, i) <=> x = f \/ x \in Matches(name, f + 1)
      /\ \A x \in Matches(name, f + 1) : f < x
  <2>1. f \in Matches(name, i)
    BY <1>1 DEF Matches
  <2>2. ASSUME NEW x \in Matches(name, i)
        PROVE  x = f \/ x \in Matches(name, f + 1)
    BY <1>1, <2>2, SubscribersAssumption DEF Matches, Indices
  <2>3. ASSUME NEW x \in Matches(name, f + 1)
        PROVE  x \in Matches(name, i) /\ f < x
    BY <1>1, <2>3, SubscribersAssumption DEF Matches, Indices
  <2> QED
    BY <2>1, <2>2, <2>3
<1>5. /\ \A k \in 1..(n+1) : k # 1 => k - 1 \in 1..n
      /\ \A k \in 1..n : k + 1 \in 1..(n+1) /\ k + 1 # 1 /\ (k + 1) - 1 = k
      /\ 1 \in 1..(n+1) /\ n + 1 \in Nat /\ n + 1 # 0
  BY <1>3
<1>6. /\ to \in [1..(n+1) -> Matches(name, i)] /\ to[1] = f
      /\ \A k \in 1..(n+1) : k # 1 => to[k] = at[k-1]
      /\ \A k \in 1..n : to[k+1] = at[k]
  BY <1>3, <1>4, <1>5
<1> HIDE DEF to
<1>7. ASSUME NEW k \in 1..(n+1)
      PROVE  to[k] >= i + k - 1
  <2>1. CASE k = 1
    BY <1>1, <1>6, <2>1
  <2>2. CASE k # 1
    <3>1. k - 1 \in 1..n /\ to[k] = at[k-1] /\ at[k-1] \in Nat
      BY <1>3, <1>5, <1>6, <2>2
    <3>2. at[k-1] >= (f + 1) + (k - 1) - 1
      BY <1>3, <3>1
    <3> QED
      BY <1>1, <3>1, <3>2
  <2> QED
    BY <2>1, <2>2
<1>8. ASSUME NEW k \in 1..(n+1), NEW x \in Matches(name, i)
      PROVE  x < to[k] <=> \E j \in 1..(k-1) : x = to[j]
  <2>1. x \in Nat /\ f <= x
    BY <1>1, SubscribersAssumption DEF Matches, Indices
  <2>2. CASE k = 1
    <3>1. 1..(k-1) = {} /\ to[k] = f
      BY <1>6, <2>2
    <3> QED
      BY <1>1, <2>1, <3>1
  <2>3. CASE k # 1
    <3>1. k - 1 \in 1..n /\ to[k] = at[k-1] /\ at[k-1] \in Nat /\ f < at[k-1]
      BY <1>3, <1>4, <1>5, <1>6, <2>3
    <3>2. CASE x = f
      <4>1. 1 \in 1..(k-1)
        BY <3>1
      <4> QED
        BY <1>6, <3>1, <3>2, <4>1
    <3>3. CASE x # f
      <4>1. x \in Matches(name, f + 1)
        BY <1>4, <3>3
      <4>2. x < at[k-1] <=> \E j \in 1..((k-1)-1) : x = at[j]
        BY <1>3, <3>1, <4>1 DEF InTurn
      <4>3. ASSUME NEW j \in 1..((k-1)-1), x = at[j]
            PROVE  \E h \in 1..(k-1) : x = to[h]
        <5>1. j + 1 \in 1..(k-1) /\ j \in 1..n
          BY <1>3, <3>1, <4>3
        <5>2. x = to[j+1]
          BY <1>6, <4>3, <5>1
        <5> QED
          BY <5>1, <5>2
      <4>4. ASSUME NEW h \in 1..(k-1), x = to[h]
            PROVE  \E j \in 1..((k-1)-1) : x = at[j]
        <5>1. h # 1
          BY <1>6, <3>3, <4>4
        <5>2. h - 1 \in 1..((k-1)-1) /\ h \in 1..(n+1)
          BY <1>3, <3>1, <5>1
        <5>3. x = at[h-1]
          BY <1>6, <4>4, <5>1, <5>2
        <5> QED
          BY <5>2, <5>3
      <4> QED
        BY <3>1, <4>2, <4>3, <4>4
    <3> QED
      BY <3>2, <3>3
  <2> QED
    BY <2>2, <2>3
<1>9. Lists(to, n + 1, name, i)
  BY <1>5, <1>6, <1>7, <1>8 DEF Lists, InTurn
<1>10. <<directory[f]>> \o text = [k \in 1..(n+1) |-> directory[to[k]]]
  <2> DEFINE S == {directory[x] : x \in Indices}
             whole == [k \in 1..(n+1) |-> directory[to[k]]]
  <2>1. \A k \in 1..n : at[k] \in Indices
    BY <1>3 DEF Matches
  <2>2. \A k \in 1..(n+1) : to[k] \in Indices
    BY <1>6 DEF Matches
  <2>3. text \in [1..n -> S] /\ directory[f] \in S /\ whole \in [1..(n+1) -> S]
    BY <1>1, <1>2, <2>1, <2>2
  <2>4. whole[1] = directory[f]
    BY <1>5, <1>6
  <2>5. Behind(whole, text, n)
    BY <1>2, <1>5, <1>6 DEF Behind
  <2> HIDE DEF whole, S
  <2>6. <<directory[f]>> \o text = whole
    BY <1>3, <2>3, <2>4, <2>5, Prefixed
  <2> QED
    BY <2>6 DEF whole
<1>11. Shows(<<directory[f]>> \o text, name, i)
  <2>1. <<directory[f]>> \o text = Entries(to, n + 1)
    BY <1>10 DEF Entries
  <2> QED
    BY <1>9, <2>1, Zenon DEF Shows
<1> QED
  BY <1>11 DEF f

(* What the loop prints.                                                   *)
LEMMA HitsShown ==
    ASSUME NEW name PROVE Shows(Hits(name), name, 0)
<1> DEFINE J == [i \in 0..Capacity |-> FindIndex(name, i)]
           Step(f) == [i \in 0..Capacity |->
                          LET j == FindIndex(name, i) IN
                          IF j < 0 THEN <<>> ELSE <<directory[j]>> \o f[j + 1]]
           from == CHOOSE f : f = Step(f)
<1>1. Capacity \in Nat
  BY SubscribersAssumption
<1>2. \A i \in 0..Capacity : J[i] < 0 \/ J[i] \in i..(Capacity-1)
  <2> TAKE i \in 0..Capacity
  <2>1. i \in Nat
    BY <1>1
  <2>2. CASE FindIndex(name, i) = -1
    BY <2>2
  <2>3. CASE FindIndex(name, i) # -1
    <3>1. FindIndex(name, i) \in Indices /\ FindIndex(name, i) >= i
      BY <2>1, <2>3, FoundFirst
    <3> QED
      BY <1>1, <2>1, <3>1 DEF Indices
  <2> QED
    BY <2>2, <2>3
<1>3. \E f : f = Step(f)
  <2>1. PICK f : Chained(f, J, directory, Capacity)
    <3> HIDE DEF J
    <3>1. Ahead(J, Capacity)
      BY <1>2 DEF Ahead
    <3> QED
      BY <1>1, <3>1, AheadExists, Zenon
  <2>2. f = Step(f)
    BY <2>1 DEF Chained
  <2> QED
    BY <2>2
<1>4. from = Step(from)
  BY <1>3
<1>5. Hits(name) = from[0]
  BY DEF Hits
<1> HIDE DEF from
<1>6. \A i \in 0..Capacity :
         from[i] = IF FindIndex(name, i) < 0 THEN <<>>
                   ELSE <<directory[FindIndex(name, i)]>>
                            \o from[FindIndex(name, i) + 1]
  BY <1>4
<1> HIDE DEF J, Step
<1> DEFINE Open == {m \in 0..Capacity :
                       ~Shows(from[Capacity - m], name, Capacity - m)}
<1>7. Open = {}
  <2> SUFFICES ASSUME Open # {} PROVE FALSE
    OBVIOUS
  <2>1. Open \in SUBSET Nat
    BY <1>1
  <2>2. PICK m \in Open : \A j \in Open : m <= j
    BY <2>1, LeastOf
  <2>3. PICK i : i = Capacity - m
    OBVIOUS
  <2>4. /\ m \in 0..Capacity /\ i \in 0..Capacity /\ i \in Nat
        /\ ~Shows(from[i], name, i)
    BY <1>1, <2>3
  <2>5. CASE FindIndex(name, i) = -1
    <3>0. FindIndex(name, i) < 0
      BY <2>4, <2>5, FoundNone
    <3>1. from[i] = <<>>
      BY <1>6, <2>4, <3>0
    <3>2. Matches(name, i) = {}
      BY <2>4, <2>5, FoundNone DEF Matches
    <3> DEFINE at == [k \in 1..0 |-> 0]
    <3>3. 1..0 = {}
      OBVIOUS
    <3>4. Lists(at, 0, name, i)
      BY <3>2, <3>3 DEF Lists, InTurn
    <3>5. <<>> = Entries(at, 0)
      BY <3>3 DEF Entries
    <3> HIDE DEF at
    <3> QED
      BY <2>4, <3>1, <3>4, <3>5 DEF Shows
  <2>6. CASE FindIndex(name, i) # -1
    <3>1. PICK j : j = FindIndex(name, i)
      OBVIOUS
    <3>2. j \in Indices /\ j >= i /\ ~(j < 0)
      BY <2>4, <2>6, <3>1, FoundFirst, FoundNone
    <3>3. PICK h : h = Capacity - (j + 1)
      OBVIOUS
    <3>4. h \in 0..Capacity /\ ~(m <= h) /\ Capacity - h = j + 1
      BY <1>1, <2>3, <2>4, <3>2, <3>3 DEF Indices
    <3>5. Shows(from[j+1], name, j + 1)
      BY <2>2, <3>4
    <3>6. from[i] = <<directory[j]>> \o from[j+1]
      BY <1>6, <2>4, <3>1, <3>2
    <3> QED
      BY <2>4, <2>6, <3>1, <3>5, <3>6, ShowsOneMore
  <2> QED
    BY <2>5, <2>6
<1>8. Capacity \in 0..Capacity /\ Capacity - Capacity = 0
  BY <1>1
<1>9. Shows(from[0], name, 0)
  BY <1>7, <1>8
<1> QED
  BY <1>5, <1>9

(* The text is of some of the name, as the directory promises.             *)
Picked(s, name, text) ==
    LET matches == {i \in DOMAIN s : s[i].name = name} IN
    \E n \in 0..Len(s) : \E at \in [1..n -> matches] :
       /\ n = 0 => matches = {}
       /\ \A k \in 1..n : \A i \in matches :
             i < at[k] <=> \E j \in 1..(k-1) : i = at[j]
       /\ text = [k \in 1..n |-> s[at[k]]]

(* The search over the whole array prints entries in use, in their order.  *)
LEMMA ArraySearchPromise ==
    ASSUME FilledInv, NEW name \in Names
    PROVE  Picked(InUse, name, Hits(name))
<1> DEFINE matches == {i \in DOMAIN InUse : InUse[i].name = name}
<1>1. /\ used \in Nat /\ Capacity \in Nat /\ used <= Capacity
      /\ Len(InUse) = used /\ DOMAIN InUse = 1..used
      /\ \A i \in 1..used : InUse[i] = directory[i-1]
  BY InUseIs
<1>2. PICK n, to : /\ Lists(to, n, name, 0)
                   /\ Hits(name) = [k \in 1..n |-> directory[to[k]]]
  BY HitsShown DEF Shows, Entries
<1>3. ASSUME NEW x \in Matches(name, 0)
      PROVE  x \in 0..(used-1) /\ x + 1 \in matches /\ (x + 1) - 1 = x
  <2>1. x \in Indices /\ x \in Nat /\ directory[x].name = name
    BY <1>1 DEF Matches, Indices
  <2>2. x < used
    BY <1>1, <2>1, EmptyAssumption
    DEF FilledInv, ArrayInv, ClearedBehind, Cleared, Indices
  <2> QED
    BY <1>1, <2>1, <2>2
<1>4. ASSUME NEW i \in matches
      PROVE  i - 1 \in Matches(name, 0) /\ i \in Nat
  BY <1>1 DEF Matches, Indices
<1> HIDE DEF matches
<1> DEFINE at == [k \in 1..n |-> to[k] + 1]
<1>5. /\ n \in Nat /\ to \in [1..n -> Matches(name, 0)]
      /\ n = 0 => Matches(name, 0) = {}
      /\ \A k \in 1..n : to[k] >= 0 + k - 1
      /\ InTurn(to, n, Matches(name, 0))
  BY <1>2 DEF Lists
<1>6. /\ at \in [1..n -> matches] /\ \A k \in 1..n : at[k] = to[k] + 1
      /\ \A k \in 1..n : to[k] \in Nat
  BY <1>3, <1>5
<1> HIDE DEF at
<1>7. n \in 0..Len(InUse)
  <2>1. CASE n = 0
    BY <1>1, <2>1
  <2>2. CASE n # 0
    <3>1. n \in 1..n /\ to[n] \in 0..(used-1) /\ to[n] >= 0 + n - 1
      BY <1>3, <1>5, <2>2
    <3> QED
      BY <1>1, <1>5, <3>1
  <2> QED
    BY <2>1, <2>2
<1>8. n = 0 => matches = {}
  BY <1>4, <1>5
<1>9. ASSUME NEW k \in 1..n, NEW i \in matches
      PROVE  i < at[k] <=> \E j \in 1..(k-1) : i = at[j]
  <2>1. i - 1 < to[k] <=> \E j \in 1..(k-1) : i - 1 = to[j]
    BY <1>4, <1>5 DEF InTurn
  <2>2. i < at[k] <=> i - 1 < to[k]
    BY <1>4, <1>6
  <2>3. ASSUME NEW j \in 1..(k-1)
        PROVE  i = at[j] <=> i - 1 = to[j]
    <3>1. j \in 1..n
      BY <1>5
    <3> QED
      BY <1>4, <1>6, <3>1
  <2> QED
    BY <2>1, <2>2, <2>3
<1>10. Hits(name) = [k \in 1..n |-> InUse[at[k]]]
  <2>1. ASSUME NEW k \in 1..n
        PROVE  directory[to[k]] = InUse[at[k]]
    <3>1. at[k] \in 1..used /\ at[k] - 1 = to[k]
      BY <1>1, <1>3, <1>5, <1>6
    <3> QED
      BY <1>1, <3>1
  <2> QED
    BY <1>2, <2>1
<1>11. \E m \in 0..Len(InUse) : \E to2 \in [1..m -> matches] :
          /\ m = 0 => matches = {}
          /\ \A k \in 1..m : \A i \in matches :
                i < to2[k] <=> \E j \in 1..(k-1) : i = to2[j]
          /\ Hits(name) = [k \in 1..m |-> InUse[to2[k]]]
  BY <1>6, <1>7, <1>8, <1>9, <1>10
<1> QED
  BY <1>11 DEF matches, Picked

-----------------------------------------------------------------------------
(* The list implements Directory.                                          *)

(* Every cell holds a subscriber.                                          *)
FieldsInv == ListInv /\ data \in [Cells -> Abonent]

(* Nothing else is written into a cell (cell_add).                         *)
LEMMA FieldsStep == FieldsInv /\ [Next]_vars => FieldsInv'
<1> SUFFICES ASSUME FieldsInv, [Next]_vars PROVE FieldsInv'
  OBVIOUS
<1>0. ListInv'
  BY ListInvStep DEF FieldsInv
<1>1. CASE UNCHANGED data
  BY <1>0, <1>1 DEF FieldsInv
<1>2. ASSUME NEW abonent \in Abonent, NEW cell \in Cells,
             CellAdd(abonent, cell)
      PROVE  FieldsInv'
  BY <1>0, <1>2 DEF FieldsInv, CellAdd
<1> QED
  BY <1>1, <1>2
  DEF Next, vars, ListNext, CellRemove, ListSearch, ListShow, DirFree, listVars

(* The walk of the program in what the list holds, now and in the next     *)
(* state.                                                                  *)
LEMMA WalkedAgain ==
    \A w : IsList(w) => Contents = [i \in 1..capacity |-> data[w[i]]]
  BY ListWalked DEF Contents

LEMMA WalkedNext ==
    (\A w : IsList(w) => Contents = [i \in 1..capacity |-> data[w[i]]])'
  BY WalkedAgain, PTL

(* What the list holds, and the same of the next state.                    *)
LEMMA ListHolds ==
    ASSUME FieldsInv, NEW w, IsList(w)
    PROVE  /\ capacity \in Nat /\ w \in [1..capacity -> Cells]
           /\ Contents \in [1..capacity -> Abonent]
           /\ Len(Contents) = capacity /\ DOMAIN Contents = 1..capacity
           /\ \A i \in 1..capacity : Contents[i] = data[w[i]]
<1>1. capacity \in Nat /\ w \in [1..capacity -> Cells]
  BY DEF IsList, Linked
<1>2. Contents = [i \in 1..capacity |-> data[w[i]]]
  BY WalkedAgain
<1>3. Contents \in [1..capacity -> Abonent]
  BY <1>1, <1>2 DEF FieldsInv
<1> QED
  BY <1>1, <1>2, <1>3, SeqOf

LEMMA ListHoldsNext ==
    ASSUME FieldsInv', NEW w, IsList(w)'
    PROVE  /\ w \in [1..capacity' -> Cells]
           /\ Contents' \in [1..capacity' -> Abonent]
           /\ \A i \in 1..capacity' : Contents'[i] = data'[w[i]]
<1>1. w \in [1..capacity' -> Cells]
  BY DEF IsList, Linked
<1>2. Contents' = [i \in 1..capacity' |-> data'[w[i]]]
  BY WalkedNext
<1>3. Contents' \in [1..capacity' -> Abonent]
  BY <1>1, <1>2 DEF FieldsInv
<1> QED
  BY <1>1, <1>2, <1>3

(* The new cell is the last.                                               *)
LEMMA ListAddPromise ==
    ASSUME FieldsInv, FieldsInv', NEW abonent \in Abonent, NEW cell,
           CellAdd(abonent, cell)
    PROVE  Contents' = Append(Contents, abonent) /\ Len(Contents) < Capacity
<1>1. PICK w : IsList(w)
  BY DEF FieldsInv, ListInv
<1>2. PICK v : IsList(v)' /\ With(v, w, capacity, cell)
  BY <1>1, ListAdds DEF FieldsInv
<1>3. /\ capacity \in Nat /\ w \in [1..capacity -> Cells]
      /\ Contents \in [1..capacity -> Abonent]
      /\ Len(Contents) = capacity
      /\ \A i \in 1..capacity : Contents[i] = data[w[i]]
  BY <1>1, ListHolds
<1>4. /\ capacity < Capacity /\ cell \in Cells \ allocated
      /\ capacity' = capacity + 1
      /\ data' = [data EXCEPT ![cell] = abonent]
  BY DEF CellAdd
<1>5. /\ v \in [1..(capacity+1) -> Cells]
      /\ Contents' \in [1..(capacity+1) -> Abonent]
      /\ \A i \in 1..(capacity+1) : Contents'[i] = data'[v[i]]
  BY <1>2, <1>4, ListHoldsNext
<1>6. Contents'[capacity+1] = abonent
  <2>1. capacity + 1 \in 1..(capacity+1) /\ v[capacity+1] = cell
    BY <1>2, <1>3 DEF With
  <2> QED
    BY <1>4, <1>5, <2>1 DEF FieldsInv
<1>7. \A i \in 1..capacity : Contents'[i] = Contents[i]
  <2> TAKE i \in 1..capacity
  <2>1. i \in 1..(capacity+1) /\ v[i] = w[i] /\ w[i] \in Cells
    BY <1>2, <1>3 DEF With
  <2>2. w[i] # cell
    BY <1>1, <1>4 DEF IsList
  <2> QED
    BY <1>3, <1>4, <1>5, <2>1, <2>2 DEF FieldsInv
<1> QED
  BY <1>3, <1>4, <1>5, <1>6, <1>7, Appended

(* The first of the name is left out, or there is none.                    *)
LEMMA ListRemovePromise ==
    ASSUME FieldsInv, FieldsInv', NEW name \in Names, CellRemove(name)
    PROVE  \/ \E i \in DOMAIN Contents :
                /\ Contents[i].name = name
                /\ \A j \in 1..(i-1) : Contents[j].name # name
                /\ Contents' = Promise!Seqs!RemoveAt(Contents, i)
           \/ /\ \A i \in DOMAIN Contents : Contents[i].name # name
              /\ Contents' = Contents
<1>1. PICK w : IsList(w)
  BY DEF FieldsInv, ListInv
<1>2. /\ capacity \in Nat /\ w \in [1..capacity -> Cells]
      /\ Contents \in [1..capacity -> Abonent]
      /\ DOMAIN Contents = 1..capacity
      /\ \A i \in 1..capacity : Contents[i] = data[w[i]]
  BY <1>1, ListHolds
<1>3. CASE CellSearch(name) = NULL
  <2>1. \A i \in 1..capacity : Contents[i].name # name
    BY <1>1, <1>2, <1>3, ListFound
  <2>2. UNCHANGED <<head, tail, capacity, allocated, next, prev, data>>
    BY <1>3 DEF CellRemove
  <2>3. Contents' = Contents
    BY <2>2 DEF Contents, Walk
  <2> QED
    BY <1>2, <2>1, <2>3
<1>4. CASE CellSearch(name) # NULL
  <2>1. PICK k \in 1..capacity :
           /\ CellSearch(name) = w[k] /\ data[w[k]].name = name
           /\ \A j \in 1..capacity : data[w[j]].name = name => k <= j
    BY <1>1, <1>4, ListFound
  <2>2. /\ Unlink(w[k]) /\ capacity' = capacity - 1
        /\ allocated' = allocated \ {w[k]} /\ data' = data
    BY <1>4, <2>1 DEF CellRemove
  <2>3. PICK v : IsList(v)' /\ Without(v, w, capacity, k)
    BY <1>1, <2>2, ListUnlinks DEF FieldsInv
  <2>4. /\ v \in [1..(capacity-1) -> Cells]
        /\ Contents' \in [1..(capacity-1) -> Abonent]
        /\ \A i \in 1..(capacity-1) : Contents'[i] = data[v[i]]
    BY <2>2, <2>3, ListHoldsNext
  <2>5. ASSUME NEW i \in 1..(capacity-1)
        PROVE  Contents'[i] = IF i < k THEN Contents[i] ELSE Contents[i+1]
    <3>1. i \in 1..capacity /\ i + 1 \in 1..capacity
      BY <1>2
    <3>2. v[i] = IF i < k THEN w[i] ELSE w[i+1]
      BY <2>3 DEF Without
    <3>3. Contents'[i] = data[v[i]]
      BY <2>4
    <3>4. Contents[i] = data[w[i]] /\ Contents[i+1] = data[w[i+1]]
      BY <1>2, <3>1
    <3> QED
      BY <3>2, <3>3, <3>4
  <2>6. Without(Contents', Contents, capacity, k)
    BY <2>5 DEF Without
  <2>7. Contents' = Promise!Seqs!RemoveAt(Contents, k)
    BY <1>2, <2>4, <2>6, Removed
  <2>8. k \in DOMAIN Contents /\ Contents[k].name = name
    BY <1>2, <2>1
  <2>9. \A j \in 1..(k-1) : Contents[j].name # name
    <3> TAKE j \in 1..(k-1)
    <3>1. j \in 1..capacity /\ ~(k <= j)
      BY <1>2
    <3> QED
      BY <1>2, <2>1, <3>1
  <2> QED
    BY <2>7, <2>8, <2>9, Zenon
<1> QED
  BY <1>3, <1>4

(* One of the name, the first, or none.                                    *)
LEMMA ListSearchPromise ==
    ASSUME FieldsInv, NEW name \in Names, ListSearch(name)
    PROVE  Picked(Contents, name, printed')
<1> DEFINE matches == {i \in DOMAIN Contents : Contents[i].name = name}
           Found(n, at) ==
              /\ n = 0 => matches = {}
              /\ \A k \in 1..n : \A i \in matches :
                    i < at[k] <=> \E j \in 1..(k-1) : i = at[j]
              /\ printed' = [k \in 1..n |-> Contents[at[k]]]
<1> SUFFICES \E n \in 0..Len(Contents) :
                \E at \in [1..n -> matches] : Found(n, at)
  BY DEF Picked
<1>1. PICK w : IsList(w)
  BY DEF FieldsInv, ListInv
<1>2. /\ capacity \in Nat /\ w \in [1..capacity -> Cells]
      /\ DOMAIN Contents = 1..capacity /\ Len(Contents) = capacity
      /\ \A i \in 1..capacity : Contents[i] = data[w[i]]
  BY <1>1, ListHolds
<1>3. CASE CellSearch(name) = NULL
  <2>1. matches = {}
    BY <1>1, <1>2, <1>3, ListFound
  <2>2. printed' = <<>>
    BY <1>3 DEF ListSearch
  <2> DEFINE at == [k \in 1..0 |-> 0]
  <2>3. 1..0 = {} /\ 0 \in 0..Len(Contents)
    BY <1>2
  <2>4. at \in [1..0 -> matches]
    BY <2>3
  <2>5. Found(0, at)
    BY <2>1, <2>2, <2>3
  <2> HIDE DEF at, Found, matches
  <2> QED
    BY <2>3, <2>4, <2>5
<1>4. CASE CellSearch(name) # NULL
  <2>1. PICK k \in 1..capacity :
           /\ CellSearch(name) = w[k] /\ data[w[k]].name = name
           /\ \A j \in 1..capacity : data[w[j]].name = name => k <= j
    BY <1>1, <1>4, ListFound
  <2>2. printed' = <<data[w[k]]>>
    BY <1>4, <2>1 DEF ListSearch
  <2>3. k \in matches /\ \A i \in matches : i \in Nat /\ k <= i
    BY <1>2, <2>1
  <2> DEFINE at == [j \in 1..1 |-> k]
  <2>4. 1..1 = {1} /\ 1..(1-1) = {} /\ 1 \in 0..Len(Contents)
    BY <1>2
  <2>5. at \in [1..1 -> matches] /\ at[1] = k
    BY <2>3, <2>4
  <2>6. printed' = [j \in 1..1 |-> Contents[at[j]]]
    <3>1. Contents[at[1]] = data[w[k]]
      BY <1>2, <2>1, <2>5
    <3>2. <<data[w[k]]>> = [j \in 1..1 |-> data[w[k]]]
      OBVIOUS
    <3> QED
      BY <2>2, <2>4, <3>1, <3>2
  <2>7. ASSUME NEW i \in matches
        PROVE  ~(i < at[1])
    BY <2>1, <2>3, <2>5
  <2>8. Found(1, at)
    BY <2>4, <2>6, <2>7
  <2> HIDE DEF at, Found, matches
  <2> QED
    BY <2>4, <2>5, <2>8
<1> QED
  BY <1>3, <1>4

(* The walk exists, however far it goes.                                   *)
LEMMA WalkExists ==
    ASSUME NEW n \in Nat
    PROVE  \E f : f = [i \in 1..n |-> IF i = 1 THEN head ELSE next[f[i-1]]]
<1> DEFINE G(f, i) == IF i = 1 THEN head ELSE next[f[i-1]]
           Solved(m) == \E f : /\ f = [i \in 1..n |-> f[i]]
                               /\ \A i \in 1..n : i <= m => f[i] = G(f, i)
           Open == {m \in 0..n : ~Solved(m)}
<1>1. Solved(0)
  <2> DEFINE f == [i \in 1..n |-> head]
  <2>1. f = [i \in 1..n |-> f[i]] /\ \A i \in 1..n : ~(i <= 0)
    OBVIOUS
  <2> HIDE DEF f, G
  <2> QED
    BY <2>1
<1>2. ASSUME NEW m \in Nat, m + 1 \in 0..n, Solved(m)
      PROVE  Solved(m+1)
  <2> PICK f : /\ f = [i \in 1..n |-> f[i]]
               /\ \A i \in 1..n : i <= m => f[i] = G(f, i)
    BY <1>2
  <2> DEFINE g == [i \in 1..n |-> IF i = m + 1 THEN G(f, m+1) ELSE f[i]]
  <2>1. \A i \in 1..n : g[i] = IF i = m + 1 THEN G(f, m+1) ELSE f[i]
    OBVIOUS
  <2>2. g = [i \in 1..n |-> g[i]]
    OBVIOUS
  <2> HIDE DEF g
  <2>3. ASSUME NEW i \in 1..n, i <= m + 1
        PROVE  G(g, i) = G(f, i)
    <3>1. CASE i = 1
      BY <3>1
    <3>2. CASE i # 1
      <4>1. i - 1 \in 1..n /\ i - 1 # m + 1
        BY <1>2, <2>3, <3>2
      <4> HIDE DEF G
      <4>2. g[i-1] = f[i-1]
        BY <2>1, <4>1
      <4>3. G(g, i) = next[g[i-1]]
        BY <3>2 DEF G
      <4>4. G(f, i) = next[f[i-1]]
        BY <3>2 DEF G
      <4> QED
        BY <4>2, <4>3, <4>4
    <3> QED
      BY <3>1, <3>2
  <2>4. \A i \in 1..n : i <= m + 1 => i = m + 1 \/ i <= m
    BY <1>2
  <2> HIDE DEF G
  <2>5. \A i \in 1..n : i <= m + 1 => g[i] = G(g, i)
    BY <2>1, <2>3, <2>4
  <2> QED
    BY <2>2, <2>5
<1>3. Open = {}
  <2> SUFFICES ASSUME Open # {} PROVE FALSE
    OBVIOUS
  <2> HIDE DEF Solved
  <2>1. Open \in SUBSET Nat
    OBVIOUS
  <2>2. PICK m \in Open : \A j \in Open : m <= j
    BY <2>1, LeastOf
  <2>3. m \in 0..n /\ ~Solved(m) /\ m # 0
    BY <1>1
  <2>4. m - 1 \in Nat /\ (m - 1) + 1 = m /\ m - 1 \in 0..n /\ ~(m <= m - 1)
    BY <2>3
  <2>5. Solved(m - 1)
    BY <2>2, <2>4
  <2> QED
    BY <1>2, <2>3, <2>4, <2>5
<1>4. Solved(n)
  <2>1. n \in 0..n
    OBVIOUS
  <2> HIDE DEF Solved
  <2> QED
    BY <1>3, <2>1
<1>5. PICK f : /\ f = [i \in 1..n |-> f[i]]
               /\ \A i \in 1..n : i <= n => f[i] = G(f, i)
  BY <1>4
<1>6. \A i \in 1..n : f[i] = G(f, i)
  <2>1. \A i \in 1..n : i <= n
    OBVIOUS
  <2> HIDE DEF G
  <2> QED
    BY <1>5, <2>1
<1>7. f = [i \in 1..n |-> G(f, i)]
  BY <1>5, <1>6
<1> QED
  BY <1>7

(* As far as there are cells it goes over them.                            *)
LEMMA WalkAhead ==
    ASSUME NEW w, IsList(w), NEW n \in Nat
    PROVE  \A i \in 1..n : i <= capacity => Walk(n)[i] = w[i]
<1>1. PICK f : f = [i \in 1..n |-> IF i = 1 THEN head ELSE next[f[i-1]]]
  BY WalkExists
<1>2. Walk(n) = f
  BY <1>1, WalkIs
<1>3. \A i \in 1..n : f[i] = IF i = 1 THEN head ELSE next[f[i-1]]
  BY <1>1
<1>4. /\ capacity \in Nat
      /\ \A i \in 1..capacity :
            w[i] = IF i = 1 THEN head ELSE next[w[i-1]]
  <2>1. capacity \in Nat
    BY DEF IsList, Linked
  <2> SUFFICES ASSUME NEW i \in 1..capacity
               PROVE  w[i] = IF i = 1 THEN head ELSE next[w[i-1]]
    BY <2>1
  <2>2. CASE i = 1
    BY <2>1, <2>2 DEF IsList, Linked
  <2>3. CASE i # 1
    BY <2>3 DEF IsList, Linked
  <2> QED
    BY <2>2, <2>3
<1> DEFINE Differ == {i \in 1..n : i <= capacity /\ f[i] # w[i]}
<1>5. Differ = {}
  <2> SUFFICES ASSUME Differ # {} PROVE FALSE
    OBVIOUS
  <2>1. Differ \in SUBSET Nat
    OBVIOUS
  <2>2. PICK k \in Differ : \A j \in Differ : k <= j
    BY <2>1, LeastOf
  <2>3. k \in 1..n /\ k \in 1..capacity /\ f[k] # w[k]
    BY <1>4
  <2>4. k # 1
    BY <1>3, <1>4, <2>3
  <2>5. k - 1 \in 1..n /\ k - 1 <= capacity /\ ~(k <= k - 1)
    BY <1>4, <2>3, <2>4
  <2>6. f[k-1] = w[k-1]
    BY <2>2, <2>5
  <2> QED
    BY <1>3, <1>4, <2>3, <2>4, <2>6
<1> QED
  BY <1>2, <1>5

(* The loop that prints all comes to an end behind the last cell.          *)
LEMMA ChainIs ==
    ASSUME NEW w, IsList(w) PROVE Chain = w
<1>1. /\ capacity \in Nat /\ w \in [1..capacity -> Cells]
      /\ \A i, j \in 1..capacity : w[i] = w[j] => i = j
  BY DEF IsList, Linked
<1>2. CASE capacity = 0
  <2>1. head = NULL /\ 1..0 = {}
    BY <1>2 DEF IsList, Linked
  <2> QED
    BY <1>1, <1>2, <2>1 DEF Chain
<1>3. CASE capacity # 0
  <2> DEFINE Ends(n) == \A i \in 1..n : next[Walk(n)[i]] = NULL <=> i = n
  <2>1. /\ head # NULL /\ capacity \in 1..capacity
        /\ next[w[capacity]] = NULL
        /\ \A i \in 1..capacity : i # capacity => next[w[i]] # NULL
    <3>1. 1 \in 1..capacity /\ capacity \in 1..capacity
      BY <1>1, <1>3
    <3>2. head = w[1] /\ next[w[capacity]] = NULL
      BY <1>3 DEF IsList, Linked
    <3>3. \A i \in 1..capacity : i # capacity => next[w[i]] # NULL
      <4> TAKE i \in 1..capacity
      <4> HAVE i # capacity
      <4>1. i + 1 \in 1..capacity /\ i + 1 # 1 /\ (i + 1) - 1 = i
        BY <1>1
      <4>2. next[w[i]] = w[i+1]
        BY <4>1 DEF IsList, Linked
      <4> QED
        BY <1>1, <4>1, <4>2, CellsAssumption
    <3> QED
      BY <1>1, <3>1, <3>2, <3>3, CellsAssumption
  <2>2. Ends(capacity)
    BY <1>1, <2>1, ListWalked
  <2>3. capacity \in 1..Cardinality(Cells)
    <3>1. w \in Injection(1..capacity, Cells)
      BY <1>1 DEF Injection, IsInjective
    <3>2. Cardinality(1..capacity) <= Cardinality(Cells)
      BY <3>1, CellsAssumption, FS_Injection
    <3>3. Cardinality(1..capacity) = capacity
      <4>1. /\ 1 \in Int /\ capacity \in Int /\ ~(1 > capacity)
            /\ capacity - 1 + 1 = capacity
        BY <1>1, <1>3
      <4> QED
        BY <4>1, FS_Interval
    <3>4. Cardinality(Cells) \in Nat
      BY CellsAssumption, FS_CardinalityType
    <3> QED
      BY <1>1, <1>3, <3>2, <3>3, <3>4
  <2>4. ASSUME NEW n \in 1..Cardinality(Cells), Ends(n)
        PROVE  n = capacity
    <3>1. n \in Nat /\ n \in 1..n
      <4>1. Cardinality(Cells) \in Nat
        BY CellsAssumption, FS_CardinalityType
      <4> QED
        BY <4>1
    <3>2. \A i \in 1..n : i <= capacity => Walk(n)[i] = w[i]
      BY <3>1, WalkAhead
    <3>3. CASE n < capacity
      <4>1. n \in 1..capacity /\ n # capacity /\ n <= capacity
        BY <1>1, <3>1, <3>3
      <4>2. next[Walk(n)[n]] = NULL /\ Walk(n)[n] = w[n]
        BY <2>4, <3>1, <3>2, <4>1
      <4> QED
        BY <2>1, <4>1, <4>2
    <3>4. CASE n > capacity
      <4>1. capacity \in 1..n /\ capacity <= capacity /\ capacity # n
        BY <1>1, <2>1, <3>1, <3>4
      <4>2. Walk(n)[capacity] = w[capacity]
        BY <3>2, <4>1
      <4> QED
        BY <2>1, <2>4, <4>1, <4>2
    <3> QED
      BY <1>1, <3>1, <3>3, <3>4
  <2>5. capacity = CHOOSE n \in 1..Cardinality(Cells) : Ends(n)
    <3> HIDE DEF Ends
    <3> QED
      BY <2>2, <2>3, <2>4
  <2>6. Chain = Walk(capacity)
    BY <2>1, <2>5 DEF Chain
  <2> QED
    BY <2>6, ListWalked
<1> QED
  BY <1>2, <1>3

(* So it prints what the list holds.                                       *)
LEMMA ListShowPromise ==
    ASSUME FieldsInv, ListShow PROVE printed' = Contents
<1>1. PICK w : IsList(w)
  BY DEF FieldsInv, ListInv
<1>2. Chain = w /\ Contents = [i \in 1..capacity |-> data[w[i]]]
  BY <1>1, ChainIs, WalkedAgain
<1>3. DOMAIN w = 1..capacity
  BY <1>1 DEF IsList, Linked
<1> QED
  BY <1>2, <1>3 DEF ListShow

(* Every command on the list is one of the directory.                      *)
LEMMA ListPromise ==
    ASSUME FieldsInv, FieldsInv', program = "list", program' = "list", ListNext
    PROVE  Promise!Next
<1>1. ASSUME NEW abonent \in Abonent, NEW cell \in Cells,
             CellAdd(abonent, cell)
      PROVE  Promise!Add(abonent)
  <2>1. Contents' = Append(Contents, abonent) /\ Len(Contents) < Capacity
    BY <1>1, ListAddPromise
  <2>2. printed' = <<>>
    BY <1>1 DEF CellAdd
  <2> QED
    BY <2>1, <2>2 DEF Promise!Add
<1>2. ASSUME NEW name \in Names, CellRemove(name)
      PROVE  Promise!Remove(name)
  <2>1. \/ \E i \in DOMAIN Contents :
             /\ Contents[i].name = name
             /\ \A j \in 1..(i-1) : Contents[j].name # name
             /\ Contents' = Promise!Seqs!RemoveAt(Contents, i)
        \/ /\ \A i \in DOMAIN Contents : Contents[i].name # name
           /\ Contents' = Contents
    BY <1>2, ListRemovePromise
  <2>2. printed' = <<>>
    BY <1>2 DEF CellRemove
  <2> QED
    BY <2>1, <2>2 DEF Promise!Remove
<1>3. ASSUME NEW name \in Names, ListSearch(name)
      PROVE  Promise!Search(name)
  <2>1. Contents' = Contents
    BY <1>3 DEF ListSearch, Contents, Walk
  <2>2. Picked(Contents, name, printed')
    BY <1>3, ListSearchPromise
  <2>3. Picked(IF program = "list" THEN Contents ELSE InUse, name,
               (IF program = "list" THEN printed ELSE output)')
    BY <2>2
  <2> QED
    BY <2>1, <2>3 DEF Promise!Search, Picked
<1>4. CASE ListShow
  <2>1. Contents' = Contents /\ printed' = Contents
    BY <1>4, ListShowPromise DEF ListShow, Contents, Walk
  <2> QED
    BY <2>1 DEF Promise!Next, Promise!ShowAll
<1>5. CASE DirFree
  <2>1. Contents' = <<>> /\ printed' = <<>>
    BY <1>5 DEF DirFree, Contents
  <2> QED
    BY <2>1 DEF Promise!Next, Promise!Leave
<1>6. ASSUME NEW abonent \in Abonent, Promise!Add(abonent) PROVE Promise!Next
  BY <1>6 DEF Promise!Next, Promise!Abonent, Abonent
<1>7. ASSUME NEW name \in Names, Promise!Remove(name) \/ Promise!Search(name)
      PROVE  Promise!Next
  BY <1>7 DEF Promise!Next
<1> QED
  BY <1>1, <1>2, <1>3, <1>4, <1>5, <1>6, <1>7 DEF ListNext

(* And every command on the array.                                         *)
LEMMA ArrayPromise ==
    ASSUME FilledInv, FilledInv', program = "array", program' = "array",
           ArrayNext
    PROVE  Promise!Next
<1> USE program # "list" /\ program' # "list"
<1>1. ASSUME NEW abonent \in Abonent, ArrayAdd(abonent)
      PROVE  Promise!Add(abonent)
  <2>1. InUse' = Append(InUse, abonent) /\ Len(InUse) < Capacity
    BY <1>1, ArrayAddPromise
  <2>2. output' = <<>>
    BY <1>1 DEF ArrayAdd
  <2> QED
    BY <2>1, <2>2 DEF Promise!Add
<1>2. ASSUME NEW name \in Names, ArrayRemove(name)
      PROVE  Promise!Remove(name)
  <2>1. \/ \E i \in DOMAIN InUse :
             /\ InUse[i].name = name
             /\ \A j \in 1..(i-1) : InUse[j].name # name
             /\ InUse' = Promise!Seqs!RemoveAt(InUse, i)
        \/ /\ \A i \in DOMAIN InUse : InUse[i].name # name
           /\ InUse' = InUse
    BY <1>2, ArrayRemovePromise
  <2>2. output' = <<>>
    BY <1>2 DEF ArrayRemove
  <2> QED
    BY <2>1, <2>2 DEF Promise!Remove
<1>3. ASSUME NEW name \in Names, ArraySearch(name)
      PROVE  Promise!Search(name)
  <2>1. InUse' = InUse /\ output' = Hits(name)
    BY <1>3 DEF ArraySearch, InUse
  <2>2. Picked(InUse, name, output')
    BY <2>1, ArraySearchPromise
  <2>3. Picked(IF program = "list" THEN Contents ELSE InUse, name,
               (IF program = "list" THEN printed ELSE output)')
    BY <2>2
  <2> QED
    BY <2>1, <2>3 DEF Promise!Search, Picked
<1>4. CASE ArrayShow
  <2>1. InUse' = InUse /\ output' = InUse
    BY <1>4 DEF ArrayShow, InUse
  <2> QED
    BY <2>1 DEF Promise!Next, Promise!ShowAll
<1>5. CASE ArrayEnd
  <2>1. InUse' = <<>> /\ output' = <<>>
    BY <1>5 DEF ArrayEnd, InUse
  <2> QED
    BY <2>1 DEF Promise!Next, Promise!Leave
<1>6. ASSUME NEW abonent \in Abonent, Promise!Add(abonent) PROVE Promise!Next
  BY <1>6 DEF Promise!Next, Promise!Abonent, Abonent
<1>7. ASSUME NEW name \in Names, Promise!Remove(name) \/ Promise!Search(name)
      PROVE  Promise!Next
  BY <1>7 DEF Promise!Next
<1> QED
  BY <1>1, <1>2, <1>3, <1>4, <1>5, <1>6, <1>7 DEF ArrayNext

-----------------------------------------------------------------------------
(* The two programs together.                                              *)
DirectoriesInv == program \in {"array", "list"} /\ FilledInv /\ FieldsInv

(* Both start empty.                                                       *)
LEMMA PromiseStart == Init => DirectoriesInv /\ Promise!Init
<1> SUFFICES ASSUME Init PROVE DirectoriesInv /\ Promise!Init
  OBVIOUS
<1>1. FilledInv
  BY ArrayInvInit, SubscribersAssumption DEF FilledInv, Init, ArrayInit, Indices
<1>2. Abonent # {}
  <2>1. PICK name \in Names, rest \in Data : TRUE
    BY SubscribersAssumption
  <2>2. [name |-> name, rest |-> rest] \in Abonent
    BY DEF Abonent
  <2> QED
    BY <2>2
<1>3. data \in [Cells -> Abonent]
  <2>1. (CHOOSE abonent \in Abonent : TRUE) \in Abonent
    BY <1>2
  <2> QED
    BY <2>1 DEF Init, ListInit
<1>4. FieldsInv
  BY <1>3, ListInvInit DEF FieldsInv
<1>5. Contents = <<>> /\ InUse = <<>>
  BY DEF Init, ListInit, ArrayInit, Contents, InUse
<1>6. Promise!Init
  BY <1>5 DEF Promise!Init, Init, ListInit, ArrayInit
<1> QED
  BY <1>1, <1>4, <1>6 DEF DirectoriesInv, Init

(* A step of either program is one of the directory, or none.              *)
LEMMA PromiseStep ==
    DirectoriesInv /\ [Next]_vars =>
        DirectoriesInv' /\ [Promise!Next]_Promise!vars
<1> SUFFICES ASSUME DirectoriesInv, [Next]_vars
             PROVE  DirectoriesInv' /\ [Promise!Next]_Promise!vars
  OBVIOUS
<1>1. program' = program
  BY DEF Next, vars
<1>2. FilledInv' /\ FieldsInv' /\ DirectoriesInv'
  BY <1>1, FilledStep, FieldsStep DEF DirectoriesInv
<1>3. CASE program = "list" /\ ListNext
  BY <1>1, <1>2, <1>3, ListPromise DEF DirectoriesInv
<1>4. CASE program = "array" /\ ArrayNext
  BY <1>1, <1>2, <1>4, ArrayPromise DEF DirectoriesInv
<1>5. CASE UNCHANGED vars
  <2>1. /\ Contents' = Contents /\ InUse' = InUse
        /\ printed' = printed /\ output' = output
    BY <1>5 DEF vars, listVars, arrayVars, Contents, InUse, Walk
  <2> QED
    BY <1>1, <1>2, <2>1 DEF Promise!vars
<1> QED
  BY <1>2, <1>3, <1>4, <1>5 DEF Next

(* Either program implements Directory: whatever is added and removed, it  *)
(* holds the subscribers in order, removes the first of a name, and shows  *)
(* what it holds, none twice and none that was removed (task4, task6).     *)
THEOREM DirectoriesImplementDirectory == Spec => ImplementsDirectory
  BY PromiseStart, PromiseStep, PTL
  DEF Spec, ImplementsDirectory, Promise!Spec
=============================================================================
