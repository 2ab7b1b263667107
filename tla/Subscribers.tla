----------------------------- MODULE Subscribers -----------------------------
(* The subscribers of the telephone directories of task4 and task6.        *)
EXTENDS Naturals, Sequences

CONSTANTS
    Names,      \* first names, by which the user searches and removes
    Data,       \* the rest of a subscriber: second name and number
    Capacity    \* how many subscribers there is room for: 100

ASSUME SubscribersAssumption ==
    Capacity \in Nat \ {0} /\ Names # {} /\ Data # {}

Abonent == [name : Names, rest : Data]
=============================================================================
