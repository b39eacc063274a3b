---------------------------- MODULE MCRouteGossip ---------------------------
(* RouteGossip on a small instance. *)
EXTENDS RouteGossip
=============================================================================
