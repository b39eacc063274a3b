--------------------------- MODULE MCCaptureDevice --------------------------
(* CaptureDevice on small instances.  Where liveness is checked no handle is *)
(* lost: a lost one uses up a subscription id as long as its device lives,   *)
(* and the instance, not the code, would run out of them.                    *)
EXTENDS CaptureDevice, TLC

Symmetry == Permutations(Owners) \cup Permutations(Routes) \cup Permutations(Slots)

\* EventuallyServed of one route.  The routes are interchangeable, in the
\* specification and in the instance: a behaviour that fails one of them is,
\* with the routes renamed, one that fails any other.
OneEventuallyServed == EventuallyFed(CHOOSE r \in Routes : TRUE)
=============================================================================
