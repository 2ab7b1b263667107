------------------------------ MODULE ChatData ------------------------------
(***************************************************************************)
(* The member table of the chats (task13/chat/src/data.c, and the same     *)
(* file in task14/chat): a growing array of entries, each a pid and its    *)
(* is_online mark, modelled as a sequence.                                 *)
(***************************************************************************)
EXTENDS Naturals, Sequences

(* One struct data_arr of the member table; the nickname is left out.      *)
Entry(Ids) == [id : Ids, online : BOOLEAN]

(* data_add: the array doubles before it overflows, so there is room.      *)
DataAdd(table, entry) == Append(table, entry)

Holds(table, id) == \E i \in DOMAIN table : table[i].id = id

(* data_find: the first index that holds id.  The code's -1 is 0 here.     *)
DataFind(table, id) ==
    IF Holds(table, id)
    THEN CHOOSE i \in DOMAIN table :
            /\ table[i].id = id
            /\ \A j \in 1..(i-1) : table[j].id # id
    ELSE 0

(* members.data[data_find(&members, id)].is_online = 0.  With no entry for *)
(* id the code writes before the array: no entry changes.                  *)
SetOffline(table, id) ==
    IF Holds(table, id)
    THEN [table EXCEPT ![DataFind(table, id)].online = FALSE]
    ELSE table

Online(table) == {i \in DOMAIN table : table[i].online}
=============================================================================
