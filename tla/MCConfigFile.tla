---------------------------- MODULE MCConfigFile ----------------------------
(* ConfigFile on small instances. *)
EXTENDS ConfigFile, TLC

SaverSymmetry == Permutations(Savers)
=============================================================================
