------------------------------ MODULE MCDtvCore -----------------------------
(* Two services on two multiplexes, one with present/following and schedule  *)
(* data and one without either: enough for a switch to change the frequency  *)
(* and for an event to be asked of both kinds.                               *)
EXTENDS DtvCore

CONSTANTS s1, s2, f1, f2

MCServices == {s1, s2}
MCFreq == [s \in MCServices |-> IF s = s1 THEN f1 ELSE f2]
MCPfServices == {s1}
MCEpgServices == {s1}

Viewer == {"event", "list"}
WithForce == {"force"}
WithScan == {"scan"}
=============================================================================
