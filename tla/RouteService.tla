----------------------------- MODULE RouteService ----------------------------
(* What the engine promises of its routes, whatever tasks it takes: a route *)
(* is wanted in some configuration or not at all, and workers are assigned  *)
(* to its halves.  RouteLifecycle implements it: the promises are those the *)
(* callers of apply_route, remove_route, try_start and shutdown_all go by   *)
(* (the comments at routing.rs 309-323, 407-430 and 984-1000).              *)
EXTENDS Naturals

CONSTANTS Routes, Configs, Sides, Workers, NoConfig, Nothing

VARIABLES
  wanted,    (* the configuration asked for, or NoConfig                    *)
  removing,  (* the routes whose removal was asked for and is not over      *)
  abandoned, (* those whose removal was given up by whoever asked for it    *)
  serving    (* serving[t]: the half of a route worker t serves, or Nothing *)

svars == <<wanted, removing, abandoned, serving>>

Assignments == [route : Routes, side : Sides, config : Configs]
Serves(t, r) == serving[t] # Nothing /\ serving[t].route = r

STypeOK ==
  /\ wanted \in [Routes -> Configs \cup {NoConfig}]
  /\ removing \subseteq Routes /\ abandoned \subseteq Routes
  /\ serving \in [Workers -> Assignments \cup {Nothing}]

SInit ==
  /\ wanted \in [Routes -> Configs \cup {NoConfig}]
  /\ removing = {} /\ abandoned = {}
  /\ serving = [t \in Workers |-> Nothing]

\* A route is added or changed.
Configure(r, c) ==
  /\ wanted' = [wanted EXCEPT ![r] = c]
  /\ abandoned' = abandoned \ {r}
  /\ UNCHANGED <<removing, serving>>

\* A route's removal is asked for.
Unconfigure(r) ==
  /\ wanted' = [wanted EXCEPT ![r] = NoConfig]
  /\ removing' = removing \cup {r}
  /\ UNCHANGED <<abandoned, serving>>

\* Whoever asked for a removal hangs up before it has taken anybody off the
\* route.  Another removal of the same route may still be on its way.
Abandon(r) ==
  /\ r \in removing
  /\ abandoned' = abandoned \cup {r}
  /\ removing' \in {removing, removing \ {r}}
  /\ UNCHANGED <<wanted, serving>>

\* A free worker takes a half that nobody serves, of a route that is wanted;
\* at worst of one whose removal is still on its way and will find it, or was
\* given up when the worker was as good as there.
Serve(t, a) ==
  /\ serving[t] = Nothing
  /\ wanted[a.route] # NoConfig \/ a.route \in removing \cup abandoned
  /\ \A u \in Workers : Serves(u, a.route) => serving[u].side # a.side
  /\ serving' = [serving EXCEPT ![t] = a]
  /\ UNCHANGED <<wanted, removing, abandoned>>

\* Some of the workers are taken off their routes: a change, an eviction, an
\* interface change, a start that failed half way.
Withdraw(ts) ==
  /\ serving' = [t \in Workers |-> IF t \in ts THEN Nothing ELSE serving[t]]
  /\ UNCHANGED <<wanted, removing, abandoned>>

\* A removal takes every worker off its route, and so does the next request
\* for one whose removal was given up.
Retire(r) ==
  /\ r \in removing \cup abandoned
  /\ serving' = [t \in Workers |-> IF Serves(t, r) THEN Nothing ELSE serving[t]]
  /\ removing' \in {removing, removing \ {r}}
  /\ abandoned' = abandoned \ {r}
  /\ UNCHANGED wanted

SNext ==
  \/ \E r \in Routes, c \in Configs : Configure(r, c)
  \/ \E r \in Routes : Unconfigure(r) \/ Abandon(r) \/ Retire(r)
  \/ \E t \in Workers, a \in Assignments : Serve(t, a)
  \/ \E ts \in SUBSET Workers : Withdraw(ts)

Service == SInit /\ [][SNext]_svars

-----------------------------------------------------------------------------
\* The promise behind RouteLifecycle!RemovedIsStopped: nobody serves a route
\* that was removed, once the removal is over (routing.rs 709-723), unless the
\* removal was given up by whoever asked for it.
GoneIsGone == \A r \in Routes :
  wanted[r] = NoConfig /\ r \notin removing \cup abandoned => \A t \in Workers : ~Serves(t, r)

\* A half of a route is served once at most (routing.rs 416-430).
ServedOnce == \A t, u \in Workers :
  /\ serving[t] # Nothing /\ serving[u] # Nothing
  /\ serving[t].route = serving[u].route /\ serving[t].side = serving[u].side
  => t = u
=============================================================================
