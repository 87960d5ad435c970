---------------------------- MODULE MCHAElection ----------------------------
(* HAElection on two masters.                                                *)
EXTENDS HAElection

Two == 1 .. 2
FullMesh == [m \in Master |-> Master \ {m}]
\* The first master was configured without peers.
FirstKnowsNobody == [m \in Master |-> IF m = 1 THEN {} ELSE Master \ {m}]
\* Every priority is above 0: peers seem to rank below until discovered.
NobodyDefers == [m \in Master |-> {}]
\* Only the first master takes its peers to outrank it: its priority is 0.
FirstDefers == [m \in Master |-> IF m = 1 THEN Peers[m] ELSE {}]
=============================================================================
