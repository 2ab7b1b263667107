---------------------------- MODULE MCTimeServers ----------------------------
(* Small instances of TimeServers for TLC.                                 *)
EXTENDS TimeServers, TLC

CONSTANTS a, b, c, h1, h2, kill, pill, tcpKill, t1

ThreeClients == {a, b, c}
TwoClients   == {a, b}
TwoHandlers  == {h1, h2}
OneTcp       == {t1}
AllServers   == {"tpr", "slots", "pills", "mux"}
OnlySlots    == {"slots"}
=============================================================================
