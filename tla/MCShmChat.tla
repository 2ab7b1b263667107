----------------------------- MODULE MCShmChat ------------------------------
(* Small instances of ShmChat for TLC: one client talks.                   *)
EXTENDS ShmChat, TLC

CONSTANTS talker, reader, TalkerActs

TwoClients == {talker, reader}
OneClient  == {talker}
TwoSlots   == [c \in Clients |-> IF c = talker THEN 7 ELSE 23]
OneActs    == [c \in Clients |-> IF c = talker THEN TalkerActs ELSE 0]
=============================================================================
