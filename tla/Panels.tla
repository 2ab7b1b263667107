-------------------------------- MODULE Panels --------------------------------
(***************************************************************************)
(* task9/fake_mc: two panels, each with a directory, a cursor (target) and *)
(* the window of rows that it shows.  There is one list of entries, that   *)
(* of the panel with the keys; it is read anew on Tab and when a directory *)
(* is opened.  Meanwhile others may remove files.                          *)
(***************************************************************************)
EXTENDS Integers, Sequences, SequencesExt

CONSTANTS
    Root,       \* "/"
    Content,    \* Content[d]: the entries of directory d at first
    Unreadable, \* the directories that cannot be scanned
    Rows        \* how many entries a panel shows, rows - 2

Dirs    == DOMAIN Content
Entries == UNION {Range(Content[d]) : d \in Dirs}   \* the others are files

(* Each directory has entries, "." and ".." for itself and its parent.     *)
ASSUME PanelsAssumption ==
    /\ Rows \in Nat \ {0}
    /\ Root \in Dirs \ Unreadable
    /\ Content \in [Dirs -> Seq(Entries) \ {<<>>}]

Panel == {"left", "right"}

VARIABLES
    listing,    \* what the directories hold now
    namelist,   \* the entries as they were last read; ndirs is its length
    cnd,        \* the panel with the keys
    path,       \* of each panel: its directory,
    target,     \*   the entry under the cursor, from 0,
    up, down,   \*   the first entry of the window and the first below it
    ui          \* "keys", "ended", or "wild": it reads behind namelist

window    == <<target, up, down>>
panelVars == <<listing, namelist, cnd, path, window, ui>>

ndirs == Len(namelist)

PanelsInit ==
    /\ listing = Content /\ namelist = Content[Root]
    /\ cnd = "left" /\ path = [p \in Panel |-> Root]
    /\ target = [p \in Panel |-> 0]
    /\ up = [p \in Panel |-> 0] /\ down = [p \in Panel |-> Rows]
    /\ ui = "keys"

(* The cursor goes to row, and refresh_index moves the window after it by  *)
(* what is missing at the top, or by one at the bottom.                    *)
MoveTo(row) ==
    LET d == IF row < up[cnd] THEN row - up[cnd]
             ELSE IF row = down[cnd] THEN 1 ELSE 0
    IN  /\ target' = [target EXCEPT ![cnd] = row]
        /\ up' = [up EXCEPT ![cnd] = @ + d]
        /\ down' = [down EXCEPT ![cnd] = @ + d]

(* print_dirs counts from up until it is at the end of the entries or of   *)
(* the window.                                                             *)
print_dirs(entries) == ui' = IF up'[cnd] > Len(entries) THEN "wild" ELSE "keys"

move_down ==
    /\ ui = "keys"
    /\ MoveTo(target[cnd] + (IF target[cnd] = ndirs - 1 THEN 0 ELSE 1))
    /\ print_dirs(namelist)
    /\ UNCHANGED <<listing, namelist, cnd, path>>

move_up ==
    /\ ui = "keys"
    /\ MoveTo(target[cnd] - (IF target[cnd] = 0 THEN 0 ELSE 1))
    /\ print_dirs(namelist)
    /\ UNCHANGED <<listing, namelist, cnd, path>>

(* Fault: the window stays where it was in the directory before.           *)
OpenDirectory_SameWindow(d) ==
    /\ path' = [path EXCEPT ![cnd] = d]
    /\ IF d \in Unreadable
       THEN ui' = "ended" /\ UNCHANGED <<namelist, window>>
       ELSE /\ namelist' = listing[d]
            /\ target' = [target EXCEPT ![cnd] = 0]
            /\ UNCHANGED <<up, down>>
            /\ print_dirs(listing[d])

OpenDirectory(d) ==
    /\ path' = [path EXCEPT ![cnd] = d]
    /\ IF d \in Unreadable
       THEN ui' = "ended" /\ UNCHANGED <<namelist, window>>
       ELSE /\ namelist' = listing[d]
            /\ MoveTo(0)
            /\ print_dirs(listing[d])

(* Enter.  The entry must still be there; a file is not opened.            *)
open_dir ==
    /\ ui = "keys"
    /\ UNCHANGED <<listing, cnd>>
    /\ LET entry == namelist[target[cnd] + 1]
       IN  IF target[cnd] >= ndirs
           THEN ui' = "wild" /\ UNCHANGED <<namelist, path, window>>
           ELSE IF entry \in Dirs THEN OpenDirectory(entry)
           ELSE /\ ui' = IF entry \in Range(listing[path[cnd]])
                         THEN "keys" ELSE "ended"
                /\ UNCHANGED <<namelist, path, window>>

(* Tab.  The cursor of the other panel stays.                              *)
SwitchPanel ==
    /\ ui = "keys"
    /\ cnd' = IF cnd = "left" THEN "right" ELSE "left"
    /\ namelist' = listing[path[cnd']]
    /\ UNCHANGED <<listing, path, window, ui>>

QuitPanels ==
    /\ ui = "keys" /\ ui' = "ended"
    /\ UNCHANGED <<listing, namelist, cnd, path, window>>

(* Another program removes a file.                                         *)
Removed(d, i) ==
    /\ ui = "keys"
    /\ listing[d][i] \notin Dirs
    /\ listing' = [listing EXCEPT ![d] = RemoveAt(@, i)]
    /\ UNCHANGED <<namelist, cnd, path, window, ui>>

PanelsNext ==
    \/ move_down \/ move_up \/ open_dir \/ SwitchPanel \/ QuitPanels
    \/ \E d \in Dirs : \E i \in DOMAIN listing[d] : Removed(d, i)

PanelsSpec == PanelsInit /\ [][PanelsNext]_panelVars

-----------------------------------------------------------------------------
PanelsTypeOK ==
    /\ listing \in [Dirs -> Seq(Entries)] /\ namelist \in Seq(Entries)
    /\ cnd \in Panel /\ path \in [Panel -> Dirs]
    /\ target \in [Panel -> Nat]
    /\ up \in [Panel -> Int] /\ down \in [Panel -> Int]
    /\ ui \in {"keys", "ended", "wild"}

(* The cursor stays in the window of its panel, which neither grows nor    *)
(* shrinks, and, as long as nobody has removed anything from its           *)
(* directory, on an entry of the list, so that print_dirs finds the end of *)
(* its loop and open_dir an entry, whatever the user does in the other     *)
(* panel, which has another directory but the same list (main.c 64-128,    *)
(* my_funcs.c 19-20, 44-89, indexes.c).                                    *)
CursorInSight ==
    \A p \in Panel :
        /\ 0 <= up[p] /\ up[p] <= target[p]
        /\ target[p] < down[p] /\ down[p] = up[p] + Rows
        /\ listing[path[p]] = Content[path[p]] /\ ui # "ended" =>
              /\ target[p] < Len(listing[path[p]])
              /\ ~(ui = "wild" /\ cnd = p)
=============================================================================
