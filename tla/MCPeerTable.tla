---------------------------- MODULE MCPeerTable -----------------------------
(* PeerTable on a small instance.  Every engine believes to be at "far", as *)
(* both ends of a tunnel do that use the same private range; in truth only  *)
(* one of them may be there, while "near" is given to either.               *)
EXTENDS PeerTable

CONSTANTS near, far, i, j

MCHome == [x \in Ids |-> far]

MCTenants == [a \in Addrs |-> IF a = near THEN {i, j} ELSE {i}]
=============================================================================
