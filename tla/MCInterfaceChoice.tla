-------------------------- MODULE MCInterfaceChoice -------------------------
(* InterfaceChoice on a small instance: a wired interface whose lease may   *)
(* change, and a tunnel that comes and goes.                                *)
EXTENDS InterfaceChoice

CONSTANTS x, y, z

MCLeases == <<{x, z}, {y, None}>>
=============================================================================
