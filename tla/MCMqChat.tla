------------------------------ MODULE MCMqChat ------------------------------
(* Instances of MqChat for TLC: one client talks, the others only read.    *)
EXTENDS MqChat, TLC

CONSTANTS talker, reader, other, TalkerLines

TwoClients == {talker, reader}
ThreeClients == {talker, reader, other}
OneReader == {reader}
OneTalks == [c \in Clients |-> IF c = talker THEN TalkerLines ELSE 0]
=============================================================================
