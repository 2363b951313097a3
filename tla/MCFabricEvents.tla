--------------------------- MODULE MCFabricEvents ---------------------------
(* Small instances of FabricEvents. *)
EXTENDS FabricEvents, TLC

CONSTANTS a1, a2, c1, c2

\* a1 runs at home, a2 on a peer.
MCHostOf == [a \in Attempts |-> IF a = a1 THEN 1 ELSE 2]
MCScopesOf == [c \in Callers |-> IF c = c1 THEN {"lane", "local", "all"} ELSE {"all"}]
MCMaxLog == [h \in Hosts |-> IF h = 1 THEN 1 ELSE 2]
=============================================================================
