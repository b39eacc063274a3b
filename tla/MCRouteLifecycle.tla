-------------------------- MODULE MCRouteLifecycle --------------------------
(* RouteLifecycle on small instances.  "tone" and "cap" run the source half *)
(* here, "loop" both halves, "away" none.                                   *)
EXTENDS RouteLifecycle, TLC

CONSTANTS tone, cap, play, loop, away, sup, disc

MCRoles == [c \in Configs |-> CASE c \in {tone, cap} -> {"send"}
                                [] c = play -> {"recv"}
                                [] c = loop -> {"send", "recv"}
                                [] OTHER -> {}]

MCScope == [p \in Sweepers |-> Routes]

ThreadSymmetry == Permutations(Workers)
ClientAndThreadSymmetry == Permutations(Workers) \cup Permutations(Clients)
=============================================================================
